---- MODULE Spec2Model ----
(***************************************************************************)
(* Snapshot-record parsing and metric derivation of the storage-durability *)
(* analysis scripts: the per-line parsers, the running sums, the           *)
(* percentage columns and the three time-rescaling policies.               *)
(*                                                                         *)
(* A file is a sequence of lines, a line a sequence of one-character       *)
(* strings (a column name of a header is written as one symbol).  Python   *)
(* ints are TLA+ integers; Python floats are IEEE-754 binary64 values kept *)
(* as sign, 53-bit significand and exponent, rounded to nearest-even after *)
(* every operation.                                                        *)
(***************************************************************************)
EXTENDS Integers, Sequences, FiniteSets, TLC

VARIABLES prog, lines, idx, loc, pc, caller

vars == <<prog, lines, idx, loc, pc, caller>>

(***************************************************************************)
(* Python float arithmetic (IEEE-754 binary64, round-half-even).           *)
(* A float is [sgn, exp, man] with sgn 1 or -1.  A finite non-zero value   *)
(* is sgn * man * 2^exp, man a sequence of bits, most significant first,   *)
(* man[1] = 1: FloatPrecision bits for a normal number, fewer bits (at     *)
(* exp = FloatMinExp) for a subnormal one.  With man empty, exp tells the  *)
(* class: 0 a zero, 1 an infinity, 2 the NaN.                              *)
(***************************************************************************)
FloatPrecision == 53

\* the exponent of the last bit of a subnormal number
FloatMinExp == -1074

\* every finite float is below 2^FloatMaxTop
FloatMaxTop == 1024

FZero == [sgn |-> 1, exp |-> 0, man |-> <<>>]

FSignedZero(sgn) == [sgn |-> sgn, exp |-> 0, man |-> <<>>]

FInf(sgn) == [sgn |-> sgn, exp |-> 1, man |-> <<>>]

FNan == [sgn |-> 1, exp |-> 2, man |-> <<>>]

\* x == 0 (0.0 or -0.0)
FIsZero(x) == x.man = <<>> /\ x.exp = 0

FIsInf(x) == x.man = <<>> /\ x.exp = 1

FIsNan(x) == x.man = <<>> /\ x.exp = 2

ZeroDivisionError == [err |-> "ZeroDivisionError", v |-> 0]

Zeros(n) == [i \in 1..n |-> 0]

Sign(n) == IF n > 0 THEN 1 ELSE IF n < 0 THEN -1 ELSE 0

\* the sign bit of the float of the int n
SignBit(n) == IF n < 0 THEN -1 ELSE 1

Abs(n) == IF n < 0 THEN -n ELSE n

Min(a, b) == IF a < b THEN a ELSE b

Max(a, b) == IF a < b THEN b ELSE a

\* the k-th smallest element of the set S of ints
Kth(S, k) == CHOOSE p \in S : Cardinality({q \in S : q <= p}) = k

\* the bits of the int n >= 0, most significant first
RECURSIVE IntBits(_)
IntBits(n) == IF n = 0 THEN <<>> ELSE Append(IntBits(n \div 2), n % 2)

\* number of bits of the int n >= 0
BitLen(n) == Len(IntBits(n))

\* the int of a bit sequence, most significant bit first
RECURSIVE BitsVal(_)
BitsVal(b) ==
    IF b = <<>> THEN 0 ELSE 2 * BitsVal(SubSeq(b, 1, Len(b) - 1)) + b[Len(b)]

\* the sequence b back to front
Rev(b) == [i \in 1..Len(b) |-> b[Len(b) + 1 - i]]

\* b without its leading zero bits
StripLead(b) ==
    IF \A i \in 1..Len(b) : b[i] = 0 THEN <<>>
    ELSE SubSeq(b, CHOOSE i \in 1..Len(b) :
                       b[i] = 1 /\ \A j \in 1..(i - 1) : b[j] = 0, Len(b))

\* b without its trailing zero bits
StripTrail(b) == Rev(StripLead(Rev(b)))

\* b + 1 on a bit sequence; the result is one bit longer when b is all ones
IncBits(b) ==
    IF \A i \in 1..Len(b) : b[i] = 1 THEN <<1>> \o Zeros(Len(b))
    ELSE [i \in 1..Len(b) |->
             IF \E j \in (i + 1)..Len(b) : b[j] = 0 THEN b[i]
             ELSE IF b[i] = 0 THEN 1 ELSE 0]

\* the float of the significand m at exp: a zero when m is empty, an
\* infinity when the value is beyond the largest float
Ranged(sgn, m, exp) ==
    IF m = <<>> THEN FSignedZero(sgn)
    ELSE IF exp + Len(m) > FloatMaxTop THEN FInf(sgn)
    ELSE [sgn |-> sgn, exp |-> exp, man |-> m]

\* the float of a significand m that may have carried into one more bit
Carried(sgn, m, exp) ==
    IF Len(m) > FloatPrecision
    THEN Ranged(sgn, SubSeq(m, 1, FloatPrecision), exp + 1)
    ELSE Ranged(sgn, m, exp)

\* b * 2^exp with `keep` bits of b kept (keep >= 0, the rest and the sticky
\* remainder below the last bit of b rounded off, ties to even)
RoundAt(sgn, b, exp, sticky, keep) ==
    Carried(sgn,
            IF /\ b[keep + 1] = 1
               /\ \/ sticky
                  \/ \E i \in (keep + 2)..Len(b) : b[i] = 1
                  \/ (keep > 0 /\ b[keep] = 1)
            THEN IncBits(SubSeq(b, 1, keep))
            ELSE SubSeq(b, 1, keep),
            exp + Len(b) - keep)

\* b * 2^exp with `pad` zero bits appended to b
Padded(sgn, b, exp, pad) == Ranged(sgn, b \o Zeros(pad), exp - pad)

\* round the integer b (no leading zeros; times 2^exp, plus a sticky
\* remainder below its last bit, which b has more than FloatPrecision bits
\* to carry) to the nearest float, ties to even: FloatPrecision bits, or as
\* many as lie at or above FloatMinExp
RoundTo(sgn, b, exp, sticky) ==
    IF Len(b) = 0 THEN FSignedZero(sgn)
    ELSE IF Len(b) <= FloatPrecision /\ exp >= FloatMinExp
    THEN Padded(sgn, b, exp, Min(FloatPrecision - Len(b), exp - FloatMinExp))
    ELSE IF Len(b) + exp < FloatMinExp THEN FSignedZero(sgn)
    ELSE RoundAt(sgn, b, exp, sticky,
                 Min(FloatPrecision, Len(b) + exp - FloatMinExp))

RoundBits(sgn, bits, exp, sticky) == RoundTo(sgn, StripLead(bits), exp, sticky)

\* float(n) for an int n
FromInt(n) == RoundTo(SignBit(n), IntBits(Abs(n)), 0, FALSE)

\* long division of bits lo..hi of b by the positive int d, r the remainder
\* carried in from the bits before lo: quotient bits q and remainder r
RECURSIVE DivBits(_, _, _, _, _)
DivBits(b, d, lo, hi, r) ==
    IF lo > hi THEN [q |-> <<>>, r |-> r]
    ELSE IF lo = hi
         THEN LET r2 == 2 * r + b[lo]
              IN  IF r2 >= d THEN [q |-> <<1>>, r |-> r2 - d]
                             ELSE [q |-> <<0>>, r |-> r2]
    ELSE LET mid == (lo + hi) \div 2
             Lh  == DivBits(b, d, lo, mid, r)
             Rh  == DivBits(b, d, mid + 1, hi, Lh.r)
         IN  [q |-> Lh.q \o Rh.q, r |-> Rh.r]

\* the float of a quotient st = [q, r] of DivBits
Quotient(sgn, st, exp) == RoundBits(sgn, st.q, exp, st.r # 0)

\* bits lo..hi of b (least significant first) times the non-negative int k,
\* c the carry coming in from the bits before lo
RECURSIVE MulBits(_, _, _, _, _)
MulBits(b, k, lo, hi, c) ==
    IF lo > hi THEN [p |-> <<>>, c |-> c]
    ELSE IF lo = hi
         THEN [p |-> <<(b[lo] * k + c) % 2>>, c |-> (b[lo] * k + c) \div 2]
    ELSE LET mid == (lo + hi) \div 2
             Lh  == MulBits(b, k, lo, mid, c)
             Rh  == MulBits(b, k, mid + 1, hi, Lh.c)
         IN  [p |-> Lh.p \o Rh.p, c |-> Rh.c]

\* the bits, most significant first, of a product m = [p, c] of MulBits
Whole(m) == IntBits(m.c) \o Rev(m.p)

\* the float of a product m = [p, c] of MulBits
Product(sgn, m, exp) == RoundBits(sgn, Whole(m), exp, FALSE)

\* a <= b on bit sequences of equal length, read as integers
BitsLe(a, b) ==
    \A i \in 1..Len(a) :
        (a[i] # b[i] /\ \A j \in 1..(i - 1) : a[j] = b[j]) => a[i] < b[i]

\* bits lo..hi of a + s * b (s is 1 or -1) on bit sequences of equal
\* length, least significant first, c the carry or borrow coming in from
\* the bits before lo
RECURSIVE AddBits(_, _, _, _, _, _)
AddBits(a, b, s, lo, hi, c) ==
    IF lo > hi THEN [p |-> <<>>, c |-> c]
    ELSE IF lo = hi
         THEN [p |-> <<(a[lo] + s * b[lo] + c) % 2>>,
               c |-> IF a[lo] + s * b[lo] + c < 0 THEN -1
                     ELSE (a[lo] + s * b[lo] + c) \div 2]
    ELSE LET mid == (lo + hi) \div 2
             Lh  == AddBits(a, b, s, lo, mid, c)
             Rh  == AddBits(a, b, s, mid + 1, hi, Lh.c)
         IN  [p |-> Lh.p \o Rh.p, c |-> Rh.c]

\* long division of bits lo..hi of b by the divisor d, r the remainder
\* carried in from the bits before lo; d and r are bit sequences of one
\* length, least significant bit first, with a zero as the last bit
RECURSIVE DivSeq(_, _, _, _, _)
DivSeq(b, d, lo, hi, r) ==
    IF lo > hi THEN [q |-> <<>>, r |-> r]
    ELSE IF lo = hi
         THEN LET r2 == <<b[lo]>> \o SubSeq(r, 1, Len(r) - 1)
                  df == AddBits(r2, d, -1, 1, Len(d), 0)
              IN  IF df.c < 0 THEN [q |-> <<0>>, r |-> r2]
                              ELSE [q |-> <<1>>, r |-> df.p]
    ELSE LET mid == (lo + hi) \div 2
             Lh  == DivSeq(b, d, lo, mid, r)
             Rh  == DivSeq(b, d, mid + 1, hi, Lh.r)
         IN  [q |-> Lh.q \o Rh.q, r |-> Rh.r]

\* the float of a quotient st = [q, r] of DivSeq
QuotientSeq(sgn, st, exp) ==
    RoundBits(sgn, st.q, exp, \E i \in 1..Len(st.r) : st.r[i] = 1)

\* the widest divisor DivBits and the widest factor MulBits take as an int
ChunkBits == 27

\* the bits n / d * 2^k hold above the point, for bit sequences n and d
\* without leading zeros: a quotient of more than FloatPrecision + 1 bits
QuotientOf(sgn, n, d, k, exp) ==
    IF Len(d) <= ChunkBits
    THEN Quotient(sgn, DivBits(n \o Zeros(k), BitsVal(d), 1, Len(n) + k, 0),
                  exp - k)
    ELSE QuotientSeq(sgn, DivSeq(n \o Zeros(k), Rev(d) \o <<0>>, 1, Len(n) + k,
                                 Zeros(Len(d) + 1)),
                     exp - k)

\* xm * 2^xe / (ym * 2^ye) for significands xm and ym
DivFinite(sgn, xm, xe, ym, ye) ==
    QuotientOf(sgn, xm, ym, Len(ym) + 2 + FloatPrecision - Len(xm), xe - ye)

\* x / y for floats: Python raises ZeroDivisionError on a zero divisor
FDivF(x, y) ==
    IF FIsZero(y) THEN ZeroDivisionError
    ELSE IF FIsNan(x) \/ FIsNan(y) THEN FNan
    ELSE IF FIsInf(x) THEN IF FIsInf(y) THEN FNan ELSE FInf(x.sgn * y.sgn)
    ELSE IF FIsInf(y) \/ FIsZero(x) THEN FSignedZero(x.sgn * y.sgn)
    ELSE DivFinite(x.sgn * y.sgn, x.man, x.exp, StripTrail(y.man),
                   y.exp + Len(y.man) - Len(StripTrail(y.man)))

\* x / d for a float x and an int d, |d| < 2^28
FDiv(x, d) ==
    IF d = 0 THEN ZeroDivisionError
    ELSE IF x.man = <<>>
    THEN IF x.exp = 2 THEN FNan ELSE [x EXCEPT !.sgn = @ * Sign(d)]
    ELSE Quotient(x.sgn * Sign(d),
                  DivBits(x.man \o Zeros(BitLen(Abs(d)) + 2 + FloatPrecision - Len(x.man)),
                          Abs(d), 1,
                          BitLen(Abs(d)) + 2 + FloatPrecision, 0),
                  x.exp - (BitLen(Abs(d)) + 2 + FloatPrecision - Len(x.man)))

\* the bits of a + b for bit sequences, most significant first
SumBits(a, b) ==
    Rev(AddBits(Rev(Zeros(1 + Max(Len(a), Len(b)) - Len(a)) \o a),
                Rev(Zeros(1 + Max(Len(a), Len(b)) - Len(b)) \o b),
                1, 1, 1 + Max(Len(a), Len(b)), 0).p)

\* the bits of xm * ym for significands: ym taken in two parts that
\* MulBits takes as ints
ProductBits(xm, ym) ==
    SumBits(Whole(MulBits(Rev(xm), BitsVal(SubSeq(ym, 1, Len(ym) - ChunkBits)),
                          1, Len(xm), 0))
                \o Zeros(Min(ChunkBits, Len(ym))),
            Whole(MulBits(Rev(xm),
                          BitsVal(SubSeq(ym, Max(1, Len(ym) - ChunkBits + 1), Len(ym))),
                          1, Len(xm), 0)))

\* x * y for floats
FMulF(x, y) ==
    IF FIsNan(x) \/ FIsNan(y) THEN FNan
    ELSE IF FIsInf(x) \/ FIsInf(y)
    THEN IF FIsZero(x) \/ FIsZero(y) THEN FNan ELSE FInf(x.sgn * y.sgn)
    ELSE IF FIsZero(x) \/ FIsZero(y) THEN FSignedZero(x.sgn * y.sgn)
    ELSE RoundBits(x.sgn * y.sgn, ProductBits(x.man, StripTrail(y.man)),
                   x.exp + y.exp + Len(y.man) - Len(StripTrail(y.man)), FALSE)

\* x * k for a float x and an int k, |k| < 2^28
FMul(x, k) ==
    IF x.man = <<>> \/ k = 0 THEN FMulF(x, FromInt(k))
    ELSE Product(x.sgn * Sign(k),
                 MulBits(Rev(x.man), Abs(k), 1, Len(x.man), 0), x.exp)

\* the position above the first bit of a finite non-zero float
Top(x) == x.exp + Len(x.man)

\* |x| <= |y| for finite non-zero floats
MagLe(x, y) ==
    \/ Top(x) < Top(y)
    \/ /\ Top(x) = Top(y)
       /\ BitsLe(x.man \o Zeros(Len(y.man) - Len(x.man)),
                 y.man \o Zeros(Len(x.man) - Len(y.man)))

\* |x| <= |y| for floats other than the NaN
MagLeAll(x, y) ==
    FIsZero(x) \/ FIsInf(y) \/ (x.man # <<>> /\ y.man # <<>> /\ MagLe(x, y))

\* -1, 0 or 1 as the float x (not the NaN) is negative, zero or positive
FSign(x) == IF FIsZero(x) THEN 0 ELSE x.sgn

\* x <= y
FLe(x, y) ==
    IF FIsNan(x) \/ FIsNan(y) THEN FALSE
    ELSE IF FSign(x) # FSign(y) THEN FSign(x) < FSign(y)
    ELSE IF FSign(x) = 0 THEN TRUE
    ELSE IF FSign(x) = 1 THEN MagLeAll(x, y)
    ELSE MagLeAll(y, x)

\* x < y
FLt(x, y) == FLe(x, y) /\ ~FLe(y, x)

\* the significand of x as an integer of w bits at exponent e
Aligned(x, e, w) ==
    Zeros(w - Len(x.man) - (x.exp - e)) \o x.man \o Zeros(x.exp - e)

\* the float sgn * (a + s * b) * 2^exp, a >= b bit sequences of equal length
Summed(sgn, a, b, s, exp) ==
    RoundBits(sgn, Rev(AddBits(Rev(a), Rev(b), s, 1, Len(a), 0).p), exp, FALSE)

\* x + y on the significands xa of x and ya of y aligned at exponent e
AddAligned(x, y, xa, ya, e) ==
    IF x.sgn = y.sgn THEN Summed(x.sgn, xa, ya, 1, e)
    ELSE IF xa = ya THEN FZero
    ELSE IF BitsLe(ya, xa) THEN Summed(x.sgn, xa, ya, -1, e)
    ELSE Summed(y.sgn, ya, xa, -1, e)

\* x + y for finite non-zero floats, e the smaller exponent and w a width
\* that holds both significands at e and a carry
AddFinite(x, y, e, w) == AddAligned(x, y, Aligned(x, e, w), Aligned(y, e, w), e)

\* x + y
FAdd(x, y) ==
    IF FIsNan(x) \/ FIsNan(y) THEN FNan
    ELSE IF FIsInf(x) THEN IF FIsInf(y) /\ x.sgn # y.sgn THEN FNan ELSE x
    ELSE IF FIsInf(y) THEN y
    ELSE IF FIsZero(x) THEN IF FIsZero(y) /\ x.sgn # y.sgn THEN FZero ELSE y
    ELSE IF FIsZero(y) THEN x
    ELSE AddFinite(x, y, Min(x.exp, y.exp),
                   1 + Max(Top(x), Top(y)) - Min(x.exp, y.exp))

\* int(x) for a finite float x: truncation toward zero
FTrunc(x) ==
    IF x.man = <<>> \/ Top(x) <= 0 THEN 0
    ELSE x.sgn * BitsVal(IF x.exp >= 0 THEN x.man \o Zeros(x.exp)
                         ELSE SubSeq(x.man, 1, Top(x)))

(***************************************************************************)
(* Python str operations on a line, a sequence of one-character strings.   *)
(***************************************************************************)
DigitChars == <<"0", "1", "2", "3", "4", "5", "6", "7", "8", "9">>

IsDigit(c) == \E d \in 1..10 : DigitChars[d] = c

DigitVal(c) == (CHOOSE d \in 1..10 : DigitChars[d] = c) - 1

\* the whitespace of str.strip() and of the pattern \s: space, \n, \t, \r,
\* \f, \v, the separators \x1c to \x1f, \x85 and \xa0 (the whitespace
\* beyond \xff cannot stand in a string here)
IsSpace(c) ==
    c \in {" ", "\n", "\t", "\r", "\f", "", "", "", "", "", "", " "}

\* the whitespace int() and float() allow around a literal: the same but
\* for the separators \x1c to \x1f
IsNumSpace(c) == c \in {" ", "\n", "\t", "\r", "\f", "", "", " "}

\* the positions of s that hold no character of the predicate's set
NonSpace(s) == {i \in 1..Len(s) : ~IsSpace(s[i])}

NonComma(s) == {i \in 1..Len(s) : s[i] # ","}

\* s from the first to the last position of `keep`, empty when keep is
Between(s, first, keep) ==
    IF keep = {} THEN <<>>
    ELSE SubSeq(s, IF first THEN Kth(keep, 1) ELSE 1, Kth(keep, Cardinality(keep)))

\* s.strip()
Strip(s) == Between(s, TRUE, NonSpace(s))

\* s without the whitespace int() and float() allow around a literal
NumStrip(s) == Between(s, TRUE, {i \in 1..Len(s) : ~IsNumSpace(s[i])})

\* s.rstrip(',')
RStripComma(s) == Between(s, FALSE, NonComma(s))

\* the pieces of s between the occurrences (at the positions `at`) of a
\* separator of length n
Pieces(s, n, at) ==
    [j \in 1..(Cardinality(at) + 1) |->
        SubSeq(s, IF j = 1 THEN 1 ELSE Kth(at, j - 1) + n,
                  IF j = Cardinality(at) + 1 THEN Len(s) ELSE Kth(at, j) - 1)]

\* s.split(sep) for sep "," or ", " (occurrences of these cannot overlap)
Split(s, sep) ==
    Pieces(s, Len(sep),
           {i \in 1..(Len(s) - Len(sep) + 1) : SubSeq(s, i, i + Len(sep) - 1) = sep})

Comma == <<",">>

CommaSpace == <<",", " ">>

\* [p.strip() for p in parts]
StripAll(parts) == [j \in 1..Len(parts) |-> Strip(parts[j])]

\* [p.strip().rstrip(',') for p in parts]
StripCommaAll(parts) == [j \in 1..Len(parts) |-> RStripComma(Strip(parts[j]))]

\* [p for p in parts if p]
NonEmpty(parts) ==
    [j \in 1..Cardinality({i \in 1..Len(parts) : parts[i] # <<>>}) |->
        parts[Kth({i \in 1..Len(parts) : parts[i] # <<>>}, j)]]

\* the elements of s at the positions of the set `keep`, in order
Picked(s, keep) == [j \in 1..Cardinality(keep) |-> s[Kth(keep, j)]]

\* value of a sequence of digit characters
RECURSIVE DigitsVal(_)
DigitsVal(ds) ==
    IF ds = <<>> THEN 0
    ELSE 10 * DigitsVal(SubSeq(ds, 1, Len(ds) - 1)) + DigitVal(ds[Len(ds)])

AllDigits(ds) == \A i \in 1..Len(ds) : IsDigit(ds[i])

\* a numeric literal after its sign, and the sign
Unsigned(t) == IF t # <<>> /\ t[1] \in {"-", "+"} THEN Tail(t) ELSE t

SignOf(t) == IF t # <<>> /\ t[1] = "-" THEN -1 ELSE 1

\* a numeric literal without its digit-grouping underscores: an underscore
\* that does not stand between two digits stays, and makes the literal
\* invalid
Ungrouped(t) ==
    Picked(t, {i \in 1..Len(t) :
                ~(/\ t[i] = "_"
                  /\ 1 < i /\ i < Len(t)
                  /\ IsDigit(t[i - 1]) /\ IsDigit(t[i + 1]))})

\* the digits before and after the first decimal point
IntPart(ds) == SubSeq(ds, 1, Kth({i \in 1..Len(ds) : ds[i] = "."} \cup {Len(ds) + 1}, 1) - 1)

FracPart(ds) == SubSeq(ds, Kth({i \in 1..Len(ds) : ds[i] = "."} \cup {Len(ds) + 1}, 1) + 1, Len(ds))

ValueError == [err |-> "ValueError", v |-> 0]

OverflowError == [err |-> "OverflowError", v |-> 0]

\* int of sign and digits
IntOf(sgn, ds) ==
    IF ds # <<>> /\ AllDigits(ds) THEN [err |-> "none", v |-> sgn * DigitsVal(ds)]
    ELSE ValueError

\* int(s): surrounding whitespace, an optional sign, decimal digits (with
\* single underscores between them); anything else raises ValueError
PyInt(s) == IntOf(SignOf(NumStrip(s)), Ungrouped(Unsigned(NumStrip(s))))

\* the bits of b * k + c for a bit sequence b and ints k and c, k + c < 2^31
Times(b, k, c) == StripLead(Whole(MulBits(Rev(b), k, 1, Len(b), c)))

\* the decimal digits taken in one step of a conversion
DigitChunk == 9

\* the bits of the number a sequence of digit characters writes
RECURSIVE DigitsBits(_)
DigitsBits(ds) ==
    IF Len(ds) <= DigitChunk THEN IntBits(DigitsVal(ds))
    ELSE LET before == DigitsBits(SubSeq(ds, 1, Len(ds) - DigitChunk))
         IN  IF Len(before) = 0
             THEN IntBits(DigitsVal(SubSeq(ds, Len(ds) - DigitChunk + 1, Len(ds))))
             ELSE Times(before, 10 ^ DigitChunk,
                        DigitsVal(SubSeq(ds, Len(ds) - DigitChunk + 1, Len(ds))))

\* the bits of b * 10^n
RECURSIVE TimesPow10(_, _)
TimesPow10(b, n) ==
    IF n = 0 \/ Len(b) = 0 THEN b
    ELSE LET m == Times(b, 10 ^ Min(n, DigitChunk), 0)
         IN  IF Len(m) = 0 THEN m ELSE TimesPow10(m, n - Min(n, DigitChunk))

\* the float nearest to sgn * n / d for bit sequences n and d
DecimalQuotient(sgn, n, d) ==
    QuotientOf(sgn, n, d, Len(d) + 2 + FloatPrecision, 0)

\* the decimal exponents beyond which every literal is an infinity, or a zero
MaxDecimalTop == 310

MinDecimalTop == -330

\* the float nearest to sgn * ds * 10^e, ds digits without leading zeros
Decimal(sgn, ds, e) ==
    IF ds = <<>> \/ Len(ds) + e < MinDecimalTop THEN FSignedZero(sgn)
    ELSE IF Len(ds) + e > MaxDecimalTop THEN FInf(sgn)
    ELSE IF e >= 0 THEN RoundTo(sgn, TimesPow10(DigitsBits(ds), e), 0, FALSE)
    ELSE DecimalQuotient(sgn, DigitsBits(ds), TimesPow10(<<1>>, -e))

\* ds without its leading zeros
StripZeros(ds) ==
    SubSeq(ds, Kth({i \in 1..Len(ds) : ds[i] # "0"} \cup {Len(ds) + 1}, 1), Len(ds))

\* the int of the digits of an exponent, as far as it can matter
ExponentVal(ds) ==
    IF Len(StripZeros(ds)) > 6 THEN 999999 ELSE DigitsVal(StripZeros(ds))

\* the part of a float literal before its exponent, and the exponent
Mantissa(u) == SubSeq(u, 1, Kth({i \in 1..Len(u) : u[i] \in {"e", "E"}} \cup {Len(u) + 1}, 1) - 1)

Exponent(u) == SubSeq(u, Len(Mantissa(u)) + 2, Len(u))

None == <<>>

Some(v) == <<v>>

\* float of a sign, integer digits, fraction digits and an exponent part
\* (None when the literal has none): the binary64 value nearest to the
\* decimal
FloatOf(sgn, ip, fp, ex) ==
    IF \/ ip \o fp = <<>> \/ ~AllDigits(ip \o fp)
       \/ ex # None /\ (Unsigned(ex[1]) = <<>> \/ ~AllDigits(Unsigned(ex[1])))
    THEN ValueError
    ELSE [err |-> "none",
          v   |-> Decimal(sgn, StripZeros(ip \o fp),
                          (IF ex = None THEN 0
                           ELSE SignOf(ex[1]) * ExponentVal(Unsigned(ex[1])))
                          - Len(fp))]

\* c.lower() for the letters of inf, infinity and nan
Lower(c) ==
    IF c = "A" THEN "a" ELSE IF c = "F" THEN "f" ELSE IF c = "I" THEN "i"
    ELSE IF c = "N" THEN "n" ELSE IF c = "T" THEN "t" ELSE IF c = "Y" THEN "y"
    ELSE c

LowerAll(u) == [i \in 1..Len(u) |-> Lower(u[i])]

InfinityWords == {<<"i", "n", "f">>, <<"i", "n", "f", "i", "n", "i", "t", "y">>}

NanWord == <<"n", "a", "n">>

\* float of a literal after its sign
FloatLiteral(sgn, u) ==
    IF LowerAll(u) \in InfinityWords THEN [err |-> "none", v |-> FInf(sgn)]
    ELSE IF LowerAll(u) = NanWord THEN [err |-> "none", v |-> FNan]
    ELSE FloatOf(sgn, IntPart(Mantissa(u)), FracPart(Mantissa(u)),
                 IF Len(Mantissa(u)) < Len(u) THEN Some(Exponent(u)) ELSE None)

\* float(s): surrounding whitespace, an optional sign, then inf, infinity
\* or nan in any case, or digits (with single underscores between them)
\* with an optional decimal point and an optional exponent; anything else
\* raises ValueError
PyFloat(s) == FloatLiteral(SignOf(NumStrip(s)), Ungrouped(Unsigned(NumStrip(s))))

\* int(x) for a float x
IntOfFloat(x) ==
    IF FIsNan(x) THEN ValueError
    ELSE IF FIsInf(x) THEN OverflowError
    ELSE [err |-> "none", v |-> FTrunc(x)]

\* int(float(s))
PyIntFloat(s) ==
    IF PyFloat(s).err # "none" THEN ValueError ELSE IntOfFloat(PyFloat(s).v)

(***************************************************************************)
(* Regular expressions.  A pattern is a sequence of items: a literal,      *)
(* \s*, [_\s], (\d+) or .* .                                               *)
(***************************************************************************)
Lit(word) == [t |-> "lit", u |-> word]

\* time:\s*(\d+),\s*year:\s*(\d+),\s*
TimeYearRe ==
    <<Lit(<<"time:">>), [t |-> "ws"], [t |-> "num"], Lit(<<",">>), [t |-> "ws"],
      Lit(<<"year:">>), [t |-> "ws"], [t |-> "num"], Lit(<<",">>), [t |-> "ws"]>>

\* tube number:\s*(\d+)
TubeRe == <<Lit(<<"tube number:">>), [t |-> "ws"], [t |-> "num"]>>

\* time:\s*(\d+),\s*year:\s*(\d+),\s*synthesis from cache
SynthesisRe == TimeYearRe \o <<Lit(<<"synthesis from cache">>)>>

\* time:\s*(\d+),\s*year:\s*(\d+),\s*last read.*tube number:\s*(\d+)
LastReadRe == TimeYearRe \o <<Lit(<<"last read">>), [t |-> "any"]>> \o TubeRe

\* the first position from i on that holds no character of the class
\* (whitespace, or a digit), Len(s) + 1 when there is none
Past(s, i, digits) ==
    Kth({j \in i..(Len(s) + 1) :
            \/ j = Len(s) + 1
            \/ IF digits THEN ~IsDigit(s[j]) ELSE ~IsSpace(s[j])}, 1)

NoMatch == [ok |-> FALSE, caps |-> <<>>]

\* the match of the items k.. of the pattern at position i of s, with the
\* groups it captured: \s* and (\d+) take all they can, .* gives back as
\* little as lets the rest match
RECURSIVE ReAt(_, _, _, _)
ReAt(s, i, pat, k) ==
    IF k > Len(pat) THEN [ok |-> TRUE, caps |-> <<>>]
    ELSE CASE pat[k].t = "lit" ->
                  IF /\ i + Len(pat[k].u) - 1 <= Len(s)
                     /\ SubSeq(s, i, i + Len(pat[k].u) - 1) = pat[k].u
                  THEN ReAt(s, i + Len(pat[k].u), pat, k + 1)
                  ELSE NoMatch
           [] pat[k].t = "ws" -> ReAt(s, Past(s, i, FALSE), pat, k + 1)
           [] pat[k].t = "sep" ->
                  IF i <= Len(s) /\ (s[i] = "_" \/ IsSpace(s[i]))
                  THEN ReAt(s, i + 1, pat, k + 1)
                  ELSE NoMatch
           [] pat[k].t = "num" ->
                  IF Past(s, i, TRUE) = i THEN NoMatch
                  ELSE LET rest == ReAt(s, Past(s, i, TRUE), pat, k + 1)
                       IN  [ok |-> rest.ok,
                            caps |-> <<SubSeq(s, i, Past(s, i, TRUE) - 1)>> \o rest.caps]
           [] pat[k].t = "any" ->
                  LET ends == {j \in i..(Len(s) + 1) : ReAt(s, j, pat, k + 1).ok}
                  IN  IF ends = {} THEN NoMatch
                      ELSE ReAt(s, Kth(ends, Cardinality(ends)), pat, k + 1)

\* re.search(pat, s): the groups of the leftmost match as ints, None when
\* the pattern matches nowhere
ReSearch(pat, s) ==
    LET starts == {i \in 1..(Len(s) + 1) : ReAt(s, i, pat, 1).ok}
    IN  IF starts = {} THEN None
        ELSE LET caps == ReAt(s, Kth(starts, 1), pat, 1).caps
             IN  Some([g \in 1..Len(caps) |-> DigitsVal(caps[g])])

(***************************************************************************)
(* The shapes the parsers share: None, the fields of a data row, the try   *)
(* block of the loop body.                                                 *)
(***************************************************************************)
\* conv(parts[col]): the value, or the exception the expression raises
\* (col < 0 stands for a key missing from col_indices)
Field(parts, col, conv) ==
    IF col < 0 THEN [err |-> "KeyError", v |-> 0]
    ELSE IF col + 1 > Len(parts) THEN [err |-> "IndexError", v |-> 0]
    ELSE IF conv = "int" THEN PyInt(parts[col + 1])
    ELSE IF conv = "int(float)" THEN PyIntFloat(parts[col + 1])
    ELSE PyFloat(parts[col + 1])

\* the conversions of the statements of a try block, in source order
Fields(stmts, parts) ==
    [j \in 1..Len(stmts) |-> Field(parts, stmts[j].col, stmts[j].conv)]

\* the first statement that raises, Len(f) + 1 when none does
FirstRaise(f) == Kth({j \in 1..Len(f) : f[j].err # "none"} \cup {Len(f) + 1}, 1)

\* data after the statements  data[key].append(value)  1..n of stmts
Appended(data, stmts, f, n) ==
    [key \in DOMAIN data |->
        IF \E j \in 1..n : stmts[j].key = key
        THEN Append(data[key], f[CHOOSE j \in 1..n : stmts[j].key = key].v)
        ELSE data[key]]

\* every statement appended unless the value repeats the list's last entry
AppendedAll_Dedup(l, stmts, v) ==
    [l EXCEPT !.data = [key \in DOMAIN @ |->
        IF /\ \E j \in 1..Len(stmts) : stmts[j].key = key
           /\ ~(/\ Len(@[key]) > 0
                /\ @[key][Len(@[key])] = v[CHOOSE j \in 1..Len(stmts) : stmts[j].key = key])
        THEN Append(@[key], v[CHOOSE j \in 1..Len(stmts) : stmts[j].key = key])
        ELSE @[key]]]

\* data after the whole try block ran: every statement appended
AppendedAll(l, stmts, v) ==
    [l EXCEPT !.data = [key \in DOMAIN @ |->
        IF \E j \in 1..Len(stmts) : stmts[j].key = key
        THEN Append(@[key], v[CHOOSE j \in 1..Len(stmts) : stmts[j].key = key])
        ELSE @[key]]]

(***************************************************************************)
(* analyze_object_loss_percentage.parse_new_snapshot_file                  *)
(***************************************************************************)
\* what a parser has unless its table says otherwise: no line skipped
\* before the split, no column-count test, no header read, no test of the
\* number of lines, no accumulator, conversions into locals, and
\* except (ValueError, IndexError)
ParserDefaults ==
    [skip |-> "never", min |-> 0, header |-> None, minlines |-> 0, acc |-> <<>>,
     style |-> "locals", early |-> 0, column_type |-> Some("fixed"),
     caught |-> {"ValueError", "IndexError"}]

loss_parser ==
    [first  |-> 2,
     parts  |-> "line.strip().split(',')",
     skip   |-> "not line",
     min    |-> 13,
     stmts  |-> <<[key |-> "timestamp", col |-> 0, conv |-> "float"],
                  [key |-> "objects_lost", col |-> 10, conv |-> "int"],
                  [key |-> "total_objects", col |-> 12, conv |-> "int"]>>,
     lists  |-> {"times", "cumulative_lost", "total_objects_in_system"},
     acc    |-> [initial_objects |-> None, running_lost_count |-> 0]] @@ ParserDefaults

\* the try block appending the increment of the row, not the running count
loss_body_NoAccumulate(l, v) ==
    [l EXCEPT !.acc.initial_objects = IF @ = None /\ v[3] > 0 THEN Some(v[3]) ELSE @,
              !.acc.running_lost_count = @ + v[2],
              !.data.times = Append(@, v[1]),
              !.data.cumulative_lost = Append(@, v[2]),
              !.data.total_objects_in_system = Append(@, v[3])]

\* the try block after its three conversions v succeeded
loss_body(l, v) ==
    [l EXCEPT !.acc.initial_objects = IF @ = None /\ v[3] > 0 THEN Some(v[3]) ELSE @,
              !.acc.running_lost_count = @ + v[2],
              !.data.times = Append(@, v[1]),
              !.data.cumulative_lost = Append(@, l.acc.running_lost_count + v[2]),
              !.data.total_objects_in_system = Append(@, v[3])]

\* the code after the loop: the percentage column and the returned tuple
loss_return(l) ==
    [l EXCEPT !.ret = Some(
        [times |-> l.data.times,
         cumulative_lost |-> l.data.cumulative_lost,
         loss_percentages |->
             IF l.acc.initial_objects # None /\ l.acc.initial_objects[1] > 0
             THEN [i \in 1..Len(l.data.cumulative_lost) |->
                      FMul(FDiv(FromInt(l.data.cumulative_lost[i]),
                                l.acc.initial_objects[1]), 100)]
             ELSE <<>>,
         total_objects_in_system |-> l.data.total_objects_in_system,
         initial_objects |-> l.acc.initial_objects])]

(***************************************************************************)
(* analyze_objects_departed.parse_snapshot_for_departures                  *)
(***************************************************************************)
departed_parser ==
    [first  |-> 2,
     parts  |-> "line.strip().split(',')",
     skip   |-> "not line",
     min    |-> 13,
     stmts  |-> <<[key |-> "timestamp", col |-> 0, conv |-> "float"],
                  [key |-> "total_objects", col |-> 12, conv |-> "int"]>>,
     lists  |-> {"times", "objects_in_system", "objects_departed",
                 "departure_percentage"},
     acc    |-> [initial_objects |-> None]] @@ ParserDefaults

\* initial_objects after  if initial_objects is None and total_objects > 0
initial_after(initial_objects, total_objects) ==
    IF initial_objects = None /\ total_objects > 0 THEN Some(total_objects)
    ELSE initial_objects

\* the appends of the try block counting total_objects - initial_objects
departed_appended_Arrived(l, v, initial_objects) ==
    [l EXCEPT
        !.acc.initial_objects = initial_objects,
        !.data.times = Append(@, v[1]),
        !.data.objects_in_system = Append(@, v[2]),
        !.data.objects_departed =
            Append(@, IF initial_objects # None /\ initial_objects[1] > 0
                      THEN v[2] - initial_objects[1] ELSE 0),
        !.data.departure_percentage =
            Append(@, IF initial_objects # None /\ initial_objects[1] > 0
                      THEN FMul(FDiv(FromInt(v[2] - initial_objects[1]),
                                     initial_objects[1]), 100)
                      ELSE FZero)]

\* the appends of the try block, initial_objects being what the row left it
departed_appended(l, v, initial_objects) ==
    [l EXCEPT
        !.acc.initial_objects = initial_objects,
        !.data.times = Append(@, v[1]),
        !.data.objects_in_system = Append(@, v[2]),
        !.data.objects_departed =
            Append(@, IF initial_objects # None /\ initial_objects[1] > 0
                      THEN initial_objects[1] - v[2] ELSE 0),
        !.data.departure_percentage =
            Append(@, IF initial_objects # None /\ initial_objects[1] > 0
                      THEN FMul(FDiv(FromInt(initial_objects[1] - v[2]),
                                     initial_objects[1]), 100)
                      ELSE FZero)]

\* the try block setting initial_objects from every row with a positive total
departed_body_LastTotal(l, v) ==
    departed_appended(l, v, IF v[2] > 0 THEN Some(v[2]) ELSE l.acc.initial_objects)

\* the try block after its two conversions v succeeded
departed_body(l, v) ==
    departed_appended(l, v, initial_after(l.acc.initial_objects, v[2]))

\* the tuple returned: the four lists and initial_objects
departed_return(l) ==
    [l EXCEPT !.ret = Some([data |-> l.data,
                            initial_objects |-> l.acc.initial_objects])]

(***************************************************************************)
(* analyze_complete_object_fate.parse_complete_snapshot_file               *)
(***************************************************************************)
fate_parser ==
    [first  |-> 2,
     parts  |-> "line.strip().split(',')",
     skip   |-> "not line",
     min    |-> 13,
     stmts  |-> <<[key |-> "timestamp", col |-> 0, conv |-> "float"],
                  [key |-> "objects_read_cache", col |-> 1, conv |-> "int"],
                  [key |-> "objects_read_tubes", col |-> 3, conv |-> "int"],
                  [key |-> "objects_lost", col |-> 10, conv |-> "int"],
                  [key |-> "total_objects", col |-> 12, conv |-> "int"]>>,
     lists  |-> {"times", "cumulative_read_cache", "cumulative_read_tubes",
                 "cumulative_read_total", "cumulative_lost",
                 "total_objects_in_system"},
     acc    |-> [initial_objects |-> None, running_read_cache |-> 0,
                 running_read_tubes |-> 0, running_lost |-> 0]] @@ ParserDefaults

\* the try block after its five conversions v succeeded
fate_body(l, v) ==
    [l EXCEPT
        !.acc.initial_objects = initial_after(@, v[5]),
        !.acc.running_read_cache = @ + v[2],
        !.acc.running_read_tubes = @ + v[3],
        !.acc.running_lost = @ + v[4],
        !.data.times = Append(@, v[1]),
        !.data.cumulative_read_cache = Append(@, l.acc.running_read_cache + v[2]),
        !.data.cumulative_read_tubes = Append(@, l.acc.running_read_tubes + v[3]),
        !.data.cumulative_read_total =
            Append(@, (l.acc.running_read_cache + v[2])
                          + (l.acc.running_read_tubes + v[3])),
        !.data.cumulative_lost = Append(@, l.acc.running_lost + v[4]),
        !.data.total_objects_in_system = Append(@, v[5])]

\* the shares in basis points: (x / initial_objects) * 10000
fate_pct_BasisPoints(counts, initial_objects) ==
    IF initial_objects # None /\ initial_objects[1] > 0
    THEN [i \in 1..Len(counts) |->
             FMul(FDiv(FromInt(counts[i]), initial_objects[1]), 10000)]
    ELSE <<>>

\* the percentages, zeros without a positive initial_objects
fate_pct_Zeros(counts, initial_objects) ==
    [i \in 1..Len(counts) |->
        IF initial_objects # None /\ initial_objects[1] > 0
        THEN FMul(FDiv(FromInt(counts[i]), initial_objects[1]), 100)
        ELSE FZero]

\* [(x / initial_objects) * 100 for x in counts], empty without a positive
\* initial_objects
fate_pct(counts, initial_objects) ==
    IF initial_objects # None /\ initial_objects[1] > 0
    THEN [i \in 1..Len(counts) |->
             FMul(FDiv(FromInt(counts[i]), initial_objects[1]), 100)]
    ELSE <<>>

\* the code after the loop: the five percentage columns and the tuple
fate_return(l) ==
    [l EXCEPT !.ret = Some(
        [data |-> l.data,
         initial_objects |-> l.acc.initial_objects,
         read_cache_pct |-> fate_pct(l.data.cumulative_read_cache, l.acc.initial_objects),
         read_tubes_pct |-> fate_pct(l.data.cumulative_read_tubes, l.acc.initial_objects),
         read_total_pct |-> fate_pct(l.data.cumulative_read_total, l.acc.initial_objects),
         loss_pct |-> fate_pct(l.data.cumulative_lost, l.acc.initial_objects),
         remaining_pct |-> fate_pct(l.data.total_objects_in_system,
                                    l.acc.initial_objects)])]

(***************************************************************************)
(* analyze_snaps_format2: parse_snaps_file, then calculate_metrics;        *)
(* compare_policies_snaps: the same two functions, with KeyError caught    *)
(* and the default total_objects.                                          *)
(***************************************************************************)
\* f.readline() on a file just opened: its first line, "" for a file
\* without a line
readline(file) == IF Len(file) = 0 THEN <<>> ELSE file[1]

\* columns = [col.strip() for col in header.split(',')]
snaps_columns(header) == StripAll(Split(Strip(header), Comma))

\* col_indices after the loop over the columns: the 0-based index of the
\* last column called `name`, -1 (no key) when no column is
col_indices(columns, name) ==
    Kth({i \in 1..Len(columns) : columns[i] = <<name>>} \cup {0},
        Cardinality({i \in 1..Len(columns) : columns[i] = <<name>>} \cup {0})) - 1

fmt2_parser(columns) ==
    [first  |-> 2,
     parts  |-> "[p.strip() for p in line.strip().split(',')]",
     skip   |-> "not line",
     stmts  |-> <<[key |-> "timestamp", conv |-> "float",
                   col |-> col_indices(columns, "timestamp")],
                  [key |-> "objects_lost_since_snap", conv |-> "float",
                   col |-> col_indices(columns, "objects_lost_since_last_snap")],
                  [key |-> "total_objects_in_system", conv |-> "float",
                   col |-> col_indices(columns, "total objects in the system")],
                  [key |-> "total_objects_in_cache", conv |-> "float",
                   col |-> col_indices(columns, "total objects in cache")],
                  [key |-> "tubes_wetted_percent", conv |-> "float",
                   col |-> col_indices(columns, "tubes_wetted_percent")],
                  [key |-> "tubes_expired_by_reads_percent", conv |-> "float",
                   col |-> col_indices(columns, "tubes_expired_by_reads_percent")],
                  [key |-> "tubes_expired_by_time_percent", conv |-> "float",
                   col |-> col_indices(columns, "tubes_expired_by_time_percent")]>>,
     style  |-> "append",
     lists  |-> {"timestamp", "objects_lost_since_snap", "total_objects_in_system",
                 "total_objects_in_cache", "tubes_wetted_percent",
                 "tubes_expired_by_reads_percent", "tubes_expired_by_time_percent"}]
    @@ ParserDefaults

pol_parser(columns) ==
    [fmt2_parser(columns) EXCEPT !.caught = {"ValueError", "IndexError", "KeyError"}]

\* the running total of calculate_metrics: total = 0, then total += lost
RECURSIVE RunningTotal(_)
RunningTotal(xs) ==
    IF xs = <<>> THEN <<>>
    ELSE LET before == RunningTotal(SubSeq(xs, 1, Len(xs) - 1))
         IN  Append(before, FAdd(IF before = <<>> THEN FromInt(0) ELSE before[Len(before)],
                                 xs[Len(xs)]))

\* the columns calculate_metrics derives, cumulative_lost computed
percentages(data, cumulative_lost, total_objects) ==
    [cumulative_lost |-> cumulative_lost,
     lost_objects_percent |->
         [i \in 1..Len(cumulative_lost) |->
             FMul(FDiv(cumulative_lost[i], total_objects), 100)],
     objects_in_cache_percent |->
         [i \in 1..Len(data.total_objects_in_cache) |->
             FMul(FDiv(data.total_objects_in_cache[i], total_objects), 100)],
     total_expired_tubes_percent |->
         [i \in 1..Min(Len(data.tubes_expired_by_reads_percent),
                       Len(data.tubes_expired_by_time_percent)) |->
             FAdd(data.tubes_expired_by_reads_percent[i],
                  data.tubes_expired_by_time_percent[i])]]

\* calculate_metrics taking the percentage of each increment, not of the
\* running total
calculate_metrics_OfIncrement(data, total_objects) ==
    percentages(data, data.objects_lost_since_snap, total_objects)

\* analyze_snaps_format2.calculate_metrics(data, total_objects)
calculate_metrics(data, total_objects) ==
    percentages(data, RunningTotal(data.objects_lost_since_snap), total_objects)

\* analyze_snaps_format2: metrics = calculate_metrics(data, total_objects);
\* a total of 0 is divided by when one of the two columns has an entry
fmt2_return(l) ==
    IF /\ l.args.total_objects = 0
       /\ l.data.objects_lost_since_snap \o l.data.total_objects_in_cache # <<>>
    THEN [l EXCEPT !.exc = "ZeroDivisionError"]
    ELSE [l EXCEPT !.ret = Some([data |-> l.data,
                                 metrics |-> calculate_metrics(l.data,
                                                               l.args.total_objects)])]

DefaultTotalObjects == 1000000

\* compare_policies_snaps.calculate_metrics(data): None when no row was
\* parsed, else the three percentage columns under the default total
pol_calculate_metrics(data, m) ==
    IF Len(data.timestamp) = 0 THEN None
    ELSE Some([lost_objects_percent |-> m.lost_objects_percent,
               objects_in_cache_percent |-> m.objects_in_cache_percent,
               total_expired_percent |-> m.total_expired_tubes_percent])

\* compare_policies_snaps: data = parse_snaps_file(filepath), then
\* metrics = calculate_metrics(data)
pol_return(l) ==
    [l EXCEPT !.ret = Some([data |-> l.data,
                            metrics |-> pol_calculate_metrics(l.data,
                                calculate_metrics(l.data, DefaultTotalObjects))])]

(***************************************************************************)
(* main.py and compare.py: parse_simulation_file, then scale_to_years on   *)
(* the timestamps parsed.                                                  *)
(***************************************************************************)
main_parser ==
    [first  |-> 5,
     parts  |-> "[p.strip() for p in line.strip().split(',')]",
     skip   |-> "not line",
     min    |-> 12,
     stmts  |-> <<[key |-> "timestamps", col |-> 0, conv |-> "float"],
                  [key |-> "lost_objects", col |-> 8, conv |-> "float"],
                  [key |-> "lost_percent", col |-> 9, conv |-> "float"],
                  [key |-> "failed_reads", col |-> 10, conv |-> "float"],
                  [key |-> "failed_percent", col |-> 11, conv |-> "float"]>>,
     style  |-> "append",
     caught |-> {"ValueError"},
     lists  |-> {"timestamps", "lost_objects", "lost_percent", "failed_reads",
                 "failed_percent"}] @@ ParserDefaults

compare_parser ==
    [first  |-> 5,
     parts  |-> "[p.strip() for p in line.strip().split(',')]",
     skip   |-> "not line",
     min    |-> 12,
     stmts  |-> <<[key |-> "timestamps", col |-> 0, conv |-> "float"],
                  [key |-> "lost_percent", col |-> 9, conv |-> "float"]>>,
     style  |-> "append",
     caught |-> {"ValueError"},
     lists  |-> {"timestamps", "lost_percent"}] @@ ParserDefaults

\* max(xs) for a non-empty list of floats
RECURSIVE FMaxTo(_, _)
FMaxTo(xs, n) ==
    IF n = 1 THEN xs[1]
    ELSE LET m == FMaxTo(xs, n - 1) IN IF FLt(m, xs[n]) THEN xs[n] ELSE m

FMax(xs) == FMaxTo(xs, Len(xs))

MaxYears == 10

\* scale_to_years with the scale factor negated
scale_to_years_Downward(timestamps, max_years) ==
    IF timestamps = <<>> THEN timestamps
    ELSE IF FIsZero(FMax(timestamps)) THEN timestamps
    ELSE LET scale_factor == FDivF(FromInt(-max_years), FMax(timestamps))
         IN  [i \in 1..Len(timestamps) |-> FMulF(timestamps[i], scale_factor)]

\* scale_to_years(timestamps, max_years)
scale_to_years(timestamps, max_years) ==
    IF timestamps = <<>> THEN timestamps
    ELSE IF FIsZero(FMax(timestamps)) THEN timestamps
    ELSE LET scale_factor == FDivF(FromInt(max_years), FMax(timestamps))
         IN  [i \in 1..Len(timestamps) |-> FMulF(timestamps[i], scale_factor)]

\* plot_all_metrics of main.py, compare_simulations of compare.py:
\* data = parse_simulation_file(filepath), years = scale_to_years(...)
main_return(l) ==
    [l EXCEPT !.ret = Some([data |-> l.data,
                            years |-> scale_to_years(l.data.timestamps, MaxYears)])]

(***************************************************************************)
(* compare_group_reads_per_policy.parse_file                               *)
(***************************************************************************)
\* parse_file with  except IndexError  only
grp_parser_CatchIndexErrorOnly ==
    [first  |-> 2,
     parts  |-> "line.strip().split(',')",
     skip   |-> "not line or line.startswith('===')",
     min    |-> 27,
     stmts  |-> <<[key |-> "timestamp", col |-> 0, conv |-> "float"],
                  [key |-> "wet_tubes_percent", col |-> 13, conv |-> "float"],
                  [key |-> "objects_lost_increment", col |-> 22, conv |-> "int"],
                  [key |-> "cache_objects", col |-> 25, conv |-> "int"],
                  [key |-> "expired_reads_increment", col |-> 14, conv |-> "int"],
                  [key |-> "expired_time_increment", col |-> 17, conv |-> "int"]>>,
     caught |-> {"IndexError"},
     lists  |-> {"timestamps", "lost_objects_pct", "wet_tubes_pct", "cache_pct",
                 "expired_total_pct", "expired_by_time_pct"},
     acc    |-> [total_objects |-> 1000000, cumulative_lost |-> 0,
                 cumulative_expired_reads |-> 0, cumulative_expired_time |-> 0]]
    @@ ParserDefaults

grp_parser ==
    [first  |-> 2,
     parts  |-> "line.strip().split(',')",
     skip   |-> "not line or line.startswith('===')",
     min    |-> 27,
     stmts  |-> <<[key |-> "timestamp", col |-> 0, conv |-> "float"],
                  [key |-> "wet_tubes_percent", col |-> 13, conv |-> "float"],
                  [key |-> "objects_lost_increment", col |-> 22, conv |-> "int"],
                  [key |-> "cache_objects", col |-> 25, conv |-> "int"],
                  [key |-> "expired_reads_increment", col |-> 14, conv |-> "int"],
                  [key |-> "expired_time_increment", col |-> 17, conv |-> "int"]>>,
     lists  |-> {"timestamps", "lost_objects_pct", "wet_tubes_pct", "cache_pct",
                 "expired_total_pct", "expired_by_time_pct"},
     acc    |-> [total_objects |-> 1000000, cumulative_lost |-> 0,
                 cumulative_expired_reads |-> 0, cumulative_expired_time |-> 0]]
    @@ ParserDefaults

\* (n / total) * 100 on ints n and total
Percent(n, total) == FMul(FDiv(FromInt(n), total), 100)

\* the try block with the increments of the record as total expired
grp_body_RecordOnly(l, v) ==
    [l EXCEPT
        !.acc.cumulative_lost = @ + v[3],
        !.acc.cumulative_expired_reads = @ + v[5],
        !.acc.cumulative_expired_time = @ + v[6],
        !.data.timestamps = Append(@, v[1]),
        !.data.lost_objects_pct =
            Append(@, Percent(l.acc.cumulative_lost + v[3], l.acc.total_objects)),
        !.data.wet_tubes_pct = Append(@, v[2]),
        !.data.cache_pct = Append(@, Percent(v[4], l.acc.total_objects)),
        !.data.expired_total_pct = Append(@, v[5] + v[6]),
        !.data.expired_by_time_pct = Append(@, l.acc.cumulative_expired_time + v[6])]

\* the try block after its six conversions v succeeded
grp_body(l, v) ==
    [l EXCEPT
        !.acc.cumulative_lost = @ + v[3],
        !.acc.cumulative_expired_reads = @ + v[5],
        !.acc.cumulative_expired_time = @ + v[6],
        !.data.timestamps = Append(@, v[1]),
        !.data.lost_objects_pct =
            Append(@, Percent(l.acc.cumulative_lost + v[3], l.acc.total_objects)),
        !.data.wet_tubes_pct = Append(@, v[2]),
        !.data.cache_pct = Append(@, Percent(v[4], l.acc.total_objects)),
        !.data.expired_total_pct =
            Append(@, (l.acc.cumulative_expired_reads + v[5])
                          + (l.acc.cumulative_expired_time + v[6])),
        !.data.expired_by_time_pct = Append(@, l.acc.cumulative_expired_time + v[6])]

(***************************************************************************)
(* compare_folders_comprehensive and compare_four_folders:                 *)
(* parse_snapshot_file_detailed(filepath, access_rate)                     *)
(***************************************************************************)
folders_parser ==
    [first  |-> 4,
     parts  |-> "[p.strip().rstrip(',') for p in line.strip().split(',')]",
     min    |-> 17,
     stmts  |-> <<[key |-> "time_stamps", col |-> 0, conv |-> "float"],
                  [key |-> "lost_objects_pct", col |-> 9, conv |-> "float"],
                  [key |-> "wet_tubes_pct", col |-> 14, conv |-> "float"],
                  [key |-> "objects_in_cache_pct", col |-> 16, conv |-> "float"],
                  [key |-> "tubes_expired_by_time", col |-> 12, conv |-> "float"],
                  [key |-> "tubes_expired_by_reads", col |-> 13, conv |-> "float"]>>,
     lists  |-> {"time_stamps", "lost_objects_pct", "wet_tubes_pct",
                 "objects_in_cache_pct", "tubes_expired_by_time",
                 "tubes_expired_by_reads"},
     header |-> Some([line |-> 2, guarded |-> TRUE, min |-> 8, caught |-> {},
                      parts |-> "[p.strip().rstrip(',') for p in line.strip().split(',')]",
                      stmts |-> <<[key |-> "initial_tubes", col |-> 1, conv |-> "int(float)"],
                                  [key |-> "max_reads", col |-> 3, conv |-> "int(float)"],
                                  [key |-> "objects_per_tube", col |-> 7, conv |-> "int(float)"]>>])]
    @@ ParserDefaults

\* compare_four_folders: a file of fewer than 4 lines returns None
four_parser == [folders_parser EXCEPT !.minlines = 4]

\* fixed-rate conversion of compare_folders_comprehensive:
\* t / (access_rate * 365)
folders_years(t, access_rate) == FDiv(t, access_rate * 365)

\* the dict returned
folders_result(l) ==
    [time |-> [i \in 1..Len(l.data.time_stamps) |->
                  folders_years(l.data.time_stamps[i], l.args.access_rate)],
     lost_objects_pct |-> l.data.lost_objects_pct,
     wet_tubes_pct |-> l.data.wet_tubes_pct,
     objects_in_cache_pct |-> l.data.objects_in_cache_pct,
     tubes_expired_by_time |-> l.data.tubes_expired_by_time,
     tubes_expired_by_reads |-> l.data.tubes_expired_by_reads,
     max_reads |-> l.hdr.max_reads,
     initial_tubes |-> l.hdr.initial_tubes,
     objects_per_tube |-> l.hdr.objects_per_tube]

\* an access rate of 0 is divided by when there is a time stamp
folders_return(l) ==
    IF l.args.access_rate * 365 = 0 /\ l.data.time_stamps # <<>>
    THEN [l EXCEPT !.exc = "ZeroDivisionError"]
    ELSE [l EXCEPT !.ret = Some(folders_result(l))]

\* compare_four_folders: None when no data line was parsed
four_return(l) ==
    IF Len(l.data.time_stamps) = 0 THEN [l EXCEPT !.ret = Some(None)]
    ELSE IF l.args.access_rate * 365 = 0 THEN [l EXCEPT !.exc = "ZeroDivisionError"]
    ELSE [l EXCEPT !.ret = Some(Some(folders_result(l)))]

(***************************************************************************)
(* visualize_snapshot_metrics.parse_snapshot_file                          *)
(***************************************************************************)
vis_parser ==
    [first  |-> 4,
     parts  |-> "line.strip().split(', ')",
     min    |-> 14,
     stmts  |-> <<[key |-> "times", col |-> 0, conv |-> "int"],
                  [key |-> "m_lost_percents", col |-> 9, conv |-> "float"],
                  [key |-> "exhausted_tubes_pcts", col |-> 13, conv |-> "float"]>>,
     lists  |-> {"times", "m_lost_percents", "exhausted_tubes_pcts"}]
    @@ ParserDefaults

\* time_stamp / 36500.0
vis_years(time_stamp) == FDiv(FromInt(time_stamp), 36500)

(***************************************************************************)
(* compare_refactored_group_read.parse_new_snapshot_file                   *)
(***************************************************************************)
refact_parser ==
    [first  |-> 2,
     parts  |-> "line.strip().split(',')",
     min    |-> 25,
     minlines |-> 2,
     stmts  |-> <<[key |-> "time", col |-> 0, conv |-> "float"],
                  [key |-> "wet_tubes_percent", col |-> 1, conv |-> "float"],
                  [key |-> "objects_in_cache_percent", col |-> 2, conv |-> "float"],
                  [key |-> "tubes_expired_by_time_percent", col |-> 3, conv |-> "float"],
                  [key |-> "tubes_expired_by_reads_percent", col |-> 4, conv |-> "float"],
                  [key |-> "total_expired_percent", col |-> 5, conv |-> "float"],
                  [key |-> "objects_lost_since_last_snap", col |-> 22, conv |-> "float"]>>,
     lists  |-> {"time", "lost_objects_percent", "wet_tubes_percent",
                 "objects_in_cache_percent", "tubes_expired_by_time_percent",
                 "tubes_expired_by_reads_percent", "total_expired_percent"},
     acc    |-> [cumulative_lost_objects |-> FZero, TOTAL_OBJECTS |-> 1000000]]
    @@ ParserDefaults

\* the try block after its seven conversions v succeeded
refact_body(l, cfg, v) ==
    [AppendedAll(l, cfg.stmts, v) EXCEPT
        !.acc.cumulative_lost_objects = FAdd(@, v[7]),
        !.data.lost_objects_percent =
            Append(@, FMul(FDiv(FAdd(l.acc.cumulative_lost_objects, v[7]),
                                l.acc.TOTAL_OBJECTS), 100))]

\* None when no data line was parsed, else the dict of lists
refact_return(l) ==
    [l EXCEPT !.ret = Some(IF Len(l.data.time) = 0 THEN None ELSE Some(l.data))]

(***************************************************************************)
(* track_tube_status, track_tube_status_with_triplets and                  *)
(* compare_single_vs_group: parse_snaps_file                               *)
(***************************************************************************)
tts_parser ==
    [first  |-> 5,
     parts  |-> "line.strip().split(', ')",
     min    |-> 10,
     stmts  |-> <<[key |-> "years", col |-> 0, conv |-> "int"],
                  [key |-> "lost_percentages", col |-> 9, conv |-> "float"]>>,
     lists  |-> {"years", "lost_percentages"},
     header |-> Some([line |-> 2, guarded |-> TRUE, min |-> 3,
                      caught |-> {"ValueError"},
                      parts |-> "line.strip().split(', ')",
                      stmts |-> <<[key |-> "max_time", col |-> 2, conv |-> "float"]>>])]
    @@ ParserDefaults

trip_parser ==
    [first  |-> 5,
     parts  |-> "line.strip().rstrip(',').strip().split(', ')",
     min    |-> 16,
     stmts  |-> <<[key |-> "years", col |-> 0, conv |-> "int"],
                  [key |-> "lost_percentages", col |-> 9, conv |-> "float"],
                  [key |-> "copysets_3_pct", col |-> 12, conv |-> "float"],
                  [key |-> "copysets_2_pct", col |-> 13, conv |-> "float"],
                  [key |-> "copysets_1_pct", col |-> 14, conv |-> "float"],
                  [key |-> "copysets_0_pct", col |-> 15, conv |-> "float"]>>,
     lists  |-> {"years", "lost_percentages", "copysets_3_pct", "copysets_2_pct",
                 "copysets_1_pct", "copysets_0_pct"},
     header |-> Some([line |-> 2, guarded |-> TRUE, min |-> 3,
                      caught |-> {"ValueError"},
                      parts |-> "line.strip().split(', ')",
                      stmts |-> <<[key |-> "initial_tubes", col |-> 1, conv |-> "int"],
                                  [key |-> "max_time", col |-> 2, conv |-> "float"]>>])]
    @@ ParserDefaults

\* compare_single_vs_group: the data lines of track_tube_status, the header
\* try block of track_tube_status_with_triplets
svg_parser == [tts_parser EXCEPT !.header = trip_parser.header]

\* year = (timestamp / max_time) * 10 if max_time else timestamp / 182625 * 10
header_years(timestamp, max_time) ==
    IF max_time # None /\ ~FIsZero(max_time[1])
    THEN FMul(FDivF(FromInt(timestamp), max_time[1]), 10)
    ELSE FMul(FDiv(FromInt(timestamp), 182625), 10)

\* the tuple returned by the two scripts that read initial_tubes
trip_return(l) ==
    [l EXCEPT !.ret = Some([data |-> l.data, initial_tubes |-> l.hdr.initial_tubes])]

(***************************************************************************)
(* batch_compare_folders.parse_snapshot_file(filepath, access_rate)        *)
(***************************************************************************)
bcf_parser ==
    [first  |-> 4,
     parts  |-> "line.strip().split(', ')",
     min    |-> 21,
     stmts  |-> <<[key |-> "times", col |-> 0, conv |-> "int"],
                  [key |-> "lost_percent", col |-> 9, conv |-> "float"],
                  [key |-> "tubes_expired_by_time", col |-> 12, conv |-> "int"],
                  [key |-> "tubes_expired_by_reads", col |-> 13, conv |-> "int"],
                  [key |-> "wet_tubes_pct", col |-> 14, conv |-> "float"],
                  [key |-> "objects_in_cache_pct", col |-> 16, conv |-> "float"]>>,
     lists  |-> {"times", "lost_percent", "wet_tubes_pct", "objects_in_cache_pct",
                 "tubes_expired_by_time", "tubes_expired_by_reads"},
     header |-> Some([line |-> 2, guarded |-> FALSE, min |-> 0, caught |-> {},
                      parts |-> "line.strip().split(', ')",
                      stmts |-> <<[key |-> "max_time_simulation", col |-> 2,
                                   conv |-> "float"]>>])]
    @@ ParserDefaults

\* days = snapshot_num / float(access_rate); years = days / 365.0
bcf_years(snapshot_num, access_rate) ==
    FDiv(FDiv(FromInt(snapshot_num), access_rate), 365)

(***************************************************************************)
(* visualize_comprehensive_metrics.parse_snapshot_file(filepath,           *)
(* access_rate)                                                            *)
(***************************************************************************)
\* accessRate[_\s](\d+)
AccessRateRe == <<Lit(<<"accessRate">>), [t |-> "sep"], [t |-> "num"]>>

\* access_rate once the filename was looked at: the argument unless it is
\* None, then the number after accessRate in the path, 1 without one
vcm_access_rate(args) ==
    IF args.access_rate # None THEN args.access_rate[1]
    ELSE IF ReSearch(AccessRateRe, args.filepath) # None
    THEN ReSearch(AccessRateRe, args.filepath)[1][1]
    ELSE 1

vcm_parser ==
    [first  |-> 4,
     parts  |-> "line.strip().split(', ')",
     min    |-> 21,
     stmts  |-> <<[key |-> "times", col |-> 0, conv |-> "int"],
                  [key |-> "lost_objects", col |-> 8, conv |-> "int"],
                  [key |-> "lost_percent", col |-> 9, conv |-> "float"],
                  [key |-> "tubes_expired_by_time", col |-> 12, conv |-> "int"],
                  [key |-> "tubes_expired_by_reads", col |-> 13, conv |-> "int"],
                  [key |-> "wet_tubes_pct", col |-> 14, conv |-> "float"],
                  [key |-> "objects_in_cache_pct", col |-> 16, conv |-> "float"]>>,
     lists  |-> {"times", "lost_objects", "lost_percent", "wet_tubes_pct",
                 "objects_in_cache_pct", "tubes_expired_by_time",
                 "tubes_expired_by_reads"},
     header |-> Some([line |-> 2, guarded |-> FALSE, min |-> 0, caught |-> {},
                      parts |-> "line.strip().split(', ')",
                      stmts |-> <<[key |-> "max_time_simulation", col |-> 2,
                                   conv |-> "float"]>>])]
    @@ ParserDefaults

\* days = snapshot_num / access_rate; years = days / (max_time_simulation / 10.0)
vcm_years(snapshot_num, access_rate, max_time_simulation) ==
    FDivF(FDiv(FromInt(snapshot_num), access_rate), FDiv(max_time_simulation, 10))

\* the try block after its seven conversions v succeeded: the two divisions
\* raise on an access rate of 0 and on a tenth of the maximum time of 0
vcm_body(l, cfg, v) ==
    IF \/ vcm_access_rate(l.args) = 0
       \/ FIsZero(FDiv(l.hdr.max_time_simulation[1], 10))
    THEN [l EXCEPT !.exc = "ZeroDivisionError"]
    ELSE AppendedAll(l, cfg.stmts,
                     [v EXCEPT ![1] = vcm_years(@, vcm_access_rate(l.args),
                                                l.hdr.max_time_simulation[1])])

(***************************************************************************)
(* batch_visualize_complete.parse_snapshot_file                            *)
(***************************************************************************)
bvc_parser ==
    [first  |-> 4,
     parts  |-> "[p for p in [p.strip() for p in line.split(',')] if p]",
     min    |-> 18,
     stmts  |-> <<[key |-> "times", col |-> 0, conv |-> "int"],
                  [key |-> "m_lost_percent", col |-> 9, conv |-> "float"],
                  [key |-> "wet_tubes_pct", col |-> 12, conv |-> "float"],
                  [key |-> "exhausted_tubes_pct", col |-> 13, conv |-> "float"],
                  [key |-> "objects_in_cache_pct", col |-> 14, conv |-> "float"],
                  [key |-> "objects_2_replicas_pct", col |-> 15, conv |-> "float"],
                  [key |-> "objects_1_replicas_pct", col |-> 16, conv |-> "float"],
                  [key |-> "objects_0_replicas_pct", col |-> 17, conv |-> "float"]>>,
     lists  |-> {"times", "wet_tubes_pct", "m_lost_percent", "exhausted_tubes_pct",
                 "objects_in_cache_pct", "objects_2_replicas_pct",
                 "objects_1_replicas_pct", "objects_0_replicas_pct"}]
    @@ ParserDefaults

\* parse_snapshot_file of batch_visualize_storage_metrics: the same lines,
\* six of the columns
bsm_parser ==
    [first  |-> 4,
     parts  |-> "[p for p in [p.strip() for p in line.split(',')] if p]",
     min    |-> 18,
     stmts  |-> <<[key |-> "times", col |-> 0, conv |-> "int"],
                  [key |-> "wet_tubes_pct", col |-> 12, conv |-> "float"],
                  [key |-> "objects_in_cache_pct", col |-> 14, conv |-> "float"],
                  [key |-> "objects_2_replicas_pct", col |-> 15, conv |-> "float"],
                  [key |-> "objects_1_replicas_pct", col |-> 16, conv |-> "float"],
                  [key |-> "objects_0_replicas_pct", col |-> 17, conv |-> "float"]>>,
     lists  |-> {"times", "wet_tubes_pct", "objects_in_cache_pct",
                 "objects_2_replicas_pct", "objects_1_replicas_pct",
                 "objects_0_replicas_pct"}]
    @@ ParserDefaults

\* max(times) on ints
IMax(xs) == xs[CHOOSE i \in 1..Len(xs) : \A j \in 1..Len(xs) : xs[j] <= xs[i]]

\* times = [(t / max_time) * 10.0 for t in times] with max_time = max(times)
bvc_normalized(times, max_time) ==
    [i \in 1..Len(times) |-> FMul(FDiv(FromInt(times[i]), max_time), 10)]

\* the code after the loop: the times are normalized if there are any;
\* a largest time of 0 is divided by
bvc_return(l) ==
    IF l.data.times = <<>> THEN [l EXCEPT !.ret = Some(l.data)]
    ELSE IF IMax(l.data.times) = 0 THEN [l EXCEPT !.exc = "ZeroDivisionError"]
    ELSE [l EXCEPT !.ret = Some([l.data EXCEPT
              !.times = bvc_normalized(l.data.times, IMax(l.data.times))])]

(***************************************************************************)
(* batch_visualize_triplets and create_triplets_comparisons: the column    *)
(* layout is detected from the third line of the file.                     *)
(***************************************************************************)
\* needle in s  on strings
Contains(s, needle) ==
    \E i \in 1..(Len(s) - Len(needle) + 1) : SubSeq(s, i, i + Len(needle) - 1) = needle

\* detect_columns with a last branch that takes any other header as pairwise
detect_columns_DefaultPairwise(file) ==
    IF Len(file) < 3 THEN None
    ELSE IF Contains(Strip(file[3]), <<"copysets_3_active_pct">>) THEN Some("copysets")
    ELSE IF Contains(Strip(file[3]), <<"objects_3_replicas_pct">>) THEN Some("triplets")
    ELSE Some("pairwise")

\* the layout named by the third line, None for a file of fewer than three
\* lines or a third line naming none of the three columns
detect_columns(file) ==
    IF Len(file) < 3 THEN None
    ELSE IF Contains(Strip(file[3]), <<"copysets_3_active_pct">>) THEN Some("copysets")
    ELSE IF Contains(Strip(file[3]), <<"objects_3_replicas_pct">>) THEN Some("triplets")
    ELSE IF Contains(Strip(file[3]), <<"objects_2_replicas_pct">>) THEN Some("pairwise")
    ELSE None

\* the replica columns of batch_visualize_triplets by layout: four from
\* column 15 on, or three for pairwise
bvt_replicas(column_type) ==
    IF column_type = Some("pairwise")
    THEN <<[key |-> "objects_2_replicas_pct", col |-> 15, conv |-> "float"],
           [key |-> "objects_1_replicas_pct", col |-> 16, conv |-> "float"],
           [key |-> "objects_0_replicas_pct", col |-> 17, conv |-> "float"]>>
    ELSE <<[key |-> "objects_3_replicas_pct", col |-> 15, conv |-> "float"],
           [key |-> "objects_2_replicas_pct", col |-> 16, conv |-> "float"],
           [key |-> "objects_1_replicas_pct", col |-> 17, conv |-> "float"],
           [key |-> "objects_0_replicas_pct", col |-> 18, conv |-> "float"]>>

\* parse_snapshot_file of batch_visualize_triplets: five conversions, their
\* five appends, then the replica conversions and their appends
bvt_parser(column_type) ==
    [first  |-> 4,
     parts  |-> "[p for p in [p.strip() for p in line.split(',')] if p]",
     min    |-> 15,
     stmts  |-> <<[key |-> "times", col |-> 0, conv |-> "int"],
                  [key |-> "m_lost_percent", col |-> 9, conv |-> "float"],
                  [key |-> "wet_tubes_pct", col |-> 12, conv |-> "float"],
                  [key |-> "exhausted_tubes_pct", col |-> 13, conv |-> "float"],
                  [key |-> "objects_in_cache_pct", col |-> 14, conv |-> "float"]>>
                \o bvt_replicas(column_type),
     early  |-> 5,
     column_type |-> column_type,
     acc    |-> [column_type |-> column_type],
     lists  |-> {"times", "wet_tubes_pct", "m_lost_percent", "exhausted_tubes_pct",
                 "objects_in_cache_pct", "objects_3_replicas_pct",
                 "objects_2_replicas_pct", "objects_1_replicas_pct",
                 "objects_0_replicas_pct"}]
    @@ ParserDefaults

\* the try block of a row whose conversions all succeeded: for pairwise
\* replicas_3 = 0.0 is what the 3-replica list takes
bvt_body(l, cfg, v) ==
    IF cfg.column_type = Some("pairwise")
    THEN [AppendedAll(l, cfg.stmts, v) EXCEPT
             !.data.objects_3_replicas_pct = Append(@, FZero)]
    ELSE AppendedAll(l, cfg.stmts, v)

\* the code after the loop: times normalized to its maximum, the layout
\* returned with the lists
bvt_return(l) ==
    IF l.data.times = <<>>
    THEN [l EXCEPT !.ret = Some([data |-> l.data, column_type |-> l.acc.column_type])]
    ELSE IF IMax(l.data.times) = 0 THEN [l EXCEPT !.exc = "ZeroDivisionError"]
    ELSE [l EXCEPT !.ret = Some([data |-> [l.data EXCEPT
                                    !.times = bvc_normalized(l.data.times, IMax(l.data.times))],
                                 column_type |-> l.acc.column_type])]

\* parse_snapshot_file of create_triplets_comparisons: the column of the
\* objects without replica is 18, or 17 for pairwise
ctc_parser(column_type) ==
    [first  |-> 4,
     parts  |-> "[p for p in [p.strip() for p in line.split(',')] if p]",
     min    |-> 15,
     stmts  |-> <<[key |-> "times", col |-> 0, conv |-> "int"],
                  [key |-> "m_lost_percent", col |-> 9, conv |-> "float"],
                  [key |-> "wet_tubes_pct", col |-> 12, conv |-> "float"],
                  [key |-> "objects_in_cache_pct", col |-> 14, conv |-> "float"],
                  [key |-> "objects_0_replicas_pct",
                   col |-> IF column_type = Some("pairwise") THEN 17 ELSE 18,
                   conv |-> "float"]>>,
     column_type |-> column_type,
     lists  |-> {"times", "m_lost_percent", "wet_tubes_pct", "objects_in_cache_pct",
                 "objects_0_replicas_pct"}]
    @@ ParserDefaults

(***************************************************************************)
(* The scripts as state machines.  prog is the script running, lines the   *)
(* file it reads, idx the line its loop is at (1-based), loc its local     *)
(* variables: the arguments, the values taken from the header lines, the   *)
(* accumulators, the output lists (data), the exception that left the      *)
(* function and the value returned.  pc is "start" before the call,        *)
(* "loop" while the loop over the data lines runs, "done" after the        *)
(* return and "raised" when an exception left the function.  caller is    *)
(* the state of the code that makes the call, a loop over files or the     *)
(* main of a script, None for a call made on its own.                      *)
(***************************************************************************)
\* the parser of script p on the file: where the data lines start, how a
\* line is cut into parts, the try block and its except clause
Parser(p, file) ==
    CASE p = "analyze_object_loss_percentage" -> loss_parser
      [] p = "analyze_objects_departed" -> departed_parser
      [] p = "analyze_complete_object_fate" -> fate_parser
      [] p = "analyze_snaps_format2" -> fmt2_parser(snaps_columns(readline(file)))
      [] p = "compare_policies_snaps" -> pol_parser(snaps_columns(readline(file)))
      [] p = "main" -> main_parser
      [] p = "compare" -> compare_parser
      [] p = "compare_group_reads_per_policy" -> grp_parser
      [] p = "compare_folders_comprehensive" -> folders_parser
      [] p = "compare_four_folders" -> four_parser
      [] p \in {"visualize_snapshot_metrics", "batch_visualize_snapshots"} -> vis_parser
      [] p = "compare_refactored_group_read" -> refact_parser
      [] p = "track_tube_status" -> tts_parser
      [] p = "track_tube_status_with_triplets" -> trip_parser
      [] p = "compare_single_vs_group" -> svg_parser
      [] p = "batch_compare_folders" -> bcf_parser
      [] p = "visualize_comprehensive_metrics" -> vcm_parser
      [] p \in {"batch_visualize_complete", "create_folder_comparisons"} -> bvc_parser
      [] p = "batch_visualize_storage_metrics" -> bsm_parser
      [] p = "batch_visualize_triplets" -> bvt_parser(detect_columns(file))
      [] p = "create_triplets_comparisons" -> ctc_parser(detect_columns(file))

\* parts of a line, by the expression the script computes them with
Tokens(expr, rawline) ==
    CASE expr = "line.strip().split(',')" -> Split(Strip(rawline), Comma)
      [] expr = "line.strip().split(', ')" -> Split(Strip(rawline), CommaSpace)
      [] expr = "line.strip().rstrip(',').strip().split(', ')" ->
             Split(Strip(RStripComma(Strip(rawline))), CommaSpace)
      [] expr = "[p.strip() for p in line.strip().split(',')]" ->
             StripAll(Split(Strip(rawline), Comma))
      [] expr = "[p.strip().rstrip(',') for p in line.strip().split(',')]" ->
             StripCommaAll(Split(Strip(rawline), Comma))
      [] expr = "[p for p in [p.strip() for p in line.split(',')] if p]" ->
             NonEmpty(StripAll(Split(rawline, Comma)))

\* the test that skips a line before it is split
Skipped(cond, line) ==
    CASE cond = "never" -> FALSE
      [] cond = "not line" -> line = <<>>
      [] cond = "not line or line.startswith('===')" ->
             line = <<>> \/ (Len(line) >= 3 /\ SubSeq(line, 1, 3) = <<"=", "=", "=">>)

\* the try block when all its conversions succeeded, v their values
Body(p, cfg, l, v) ==
    CASE p = "analyze_object_loss_percentage" -> loss_body(l, v)
      [] p = "analyze_objects_departed" -> departed_body(l, v)
      [] p = "analyze_complete_object_fate" -> fate_body(l, v)
      [] p = "compare_group_reads_per_policy" -> grp_body(l, v)
      [] p = "compare_refactored_group_read" -> refact_body(l, cfg, v)
      [] p = "batch_visualize_triplets" -> bvt_body(l, cfg, v)
      [] p = "visualize_snapshot_metrics" ->
             AppendedAll(l, cfg.stmts, [v EXCEPT ![1] = vis_years(@)])
      [] p \in {"track_tube_status", "track_tube_status_with_triplets",
                "compare_single_vs_group"} ->
             AppendedAll(l, cfg.stmts,
                         [v EXCEPT ![1] = header_years(@, l.hdr.max_time)])
      [] p = "visualize_comprehensive_metrics" -> vcm_body(l, cfg, v)
      [] p = "batch_compare_folders" ->
             IF l.args.access_rate = 0 THEN [l EXCEPT !.exc = "ZeroDivisionError"]
             ELSE AppendedAll(l, cfg.stmts,
                              [v EXCEPT ![1] = bcf_years(@, l.args.access_rate)])
      [] OTHER -> AppendedAll(l, cfg.stmts, v)

\* the try block and its except clause: f the conversions, n the first
\* that raises; the appends made before statement n stay: each statement's
\* own, or those of a first block of cfg.early statements
Try(p, cfg, l, f, n) ==
    IF n > Len(f) THEN Body(p, cfg, l, [j \in 1..Len(f) |-> f[j].v])
    ELSE [l EXCEPT !.data = IF cfg.style = "append"
                             THEN Appended(@, cfg.stmts, f, n - 1)
                             ELSE IF n > cfg.early
                             THEN Appended(@, cfg.stmts, f, cfg.early) ELSE @,
                   !.exc = IF f[n].err \in cfg.caught THEN "none" ELSE f[n].err]

\* the column-count test, then the try block
Checked(p, cfg, l, parts) ==
    IF Len(parts) < cfg.min THEN l
    ELSE Try(p, cfg, l, Fields(cfg.stmts, parts), FirstRaise(Fields(cfg.stmts, parts)))

\* one pass of the loop over the data lines
LineOf(p, cfg, l, rawline) ==
    IF Skipped(cfg.skip, Strip(rawline)) THEN l
    ELSE Checked(p, cfg, l, Tokens(cfg.parts, rawline))

\* the assignments  name = conv(header_parts[col])  of the header h: those
\* before the first that raises (n) take effect; an exception the header's
\* except clause does not name leaves the function
HeaderTry(h, l, f, n) ==
    [l EXCEPT !.hdr = [key \in DOMAIN @ |->
                          IF \E j \in 1..(n - 1) : h.stmts[j].key = key
                          THEN Some(f[CHOOSE j \in 1..(n - 1) : h.stmts[j].key = key].v)
                          ELSE @[key]],
              !.exc = IF n <= Len(f) /\ f[n].err \notin h.caught
                      THEN f[n].err ELSE "none"]

\* the header line read: the test of its number of fields, then the
\* assignments; a file without the line raises where the script indexes
\* it unguarded
HeaderOf(h, file, l) ==
    IF Len(file) < h.line
    THEN [l EXCEPT !.exc = IF h.guarded THEN "none" ELSE "IndexError"]
    ELSE IF Len(Tokens(h.parts, file[h.line])) < h.min THEN l
    ELSE HeaderTry(h, l, Fields(h.stmts, Tokens(h.parts, file[h.line])),
                   FirstRaise(Fields(h.stmts, Tokens(h.parts, file[h.line]))))

\* the locals before the file is looked at
Locals(cfg, args) ==
    [args |-> args,
     hdr  |-> IF cfg.header = None THEN <<>>
              ELSE [key \in {cfg.header[1].stmts[j].key :
                                j \in 1..Len(cfg.header[1].stmts)} |-> None],
     acc  |-> cfg.acc,
     data |-> [key \in cfg.lists |-> <<>>],
     exc  |-> "none",
     ret  |-> None]

\* the code before the loop: a file too short or of no detected layout
\* returns None, the header line is read
Preamble(cfg, file, l) ==
    IF Len(file) < cfg.minlines \/ cfg.column_type = None
    THEN [l EXCEPT !.ret = Some(None)]
    ELSE IF cfg.header = None THEN l
    ELSE HeaderOf(cfg.header[1], file, l)

\* the code after the loop
ReturnOf(p, l) ==
    CASE p = "analyze_object_loss_percentage" -> loss_return(l)
      [] p = "analyze_objects_departed" -> departed_return(l)
      [] p = "analyze_complete_object_fate" -> fate_return(l)
      [] p = "analyze_snaps_format2" -> fmt2_return(l)
      [] p = "compare_policies_snaps" -> pol_return(l)
      [] p \in {"main", "compare"} -> main_return(l)
      [] p = "compare_folders_comprehensive" -> folders_return(l)
      [] p = "compare_four_folders" -> four_return(l)
      [] p = "compare_refactored_group_read" -> refact_return(l)
      [] p \in {"track_tube_status_with_triplets", "compare_single_vs_group"} ->
             trip_return(l)
      [] p \in {"batch_visualize_complete", "create_folder_comparisons",
                "batch_visualize_storage_metrics", "create_triplets_comparisons",
                "batch_visualize_snapshots"} ->
             bvc_return(l)
      [] p = "batch_visualize_triplets" -> bvt_return(l)
      [] OTHER -> [l EXCEPT !.ret = Some(l.data)]

PcAfter(l, normal) ==
    IF l.exc # "none" THEN "raised" ELSE IF l.ret # None THEN "done" ELSE normal

\* the call with lists that outlive it: but for times, which the return
\* rebinds, they start as the last call in the run returned them
Begin_ListsOfLastCall ==
    /\ pc = "start"
    /\ loc' = Preamble(Parser(prog, lines), lines,
                       [Locals(Parser(prog, lines), loc.args) EXCEPT !.data =
                           IF /\ caller # None
                              /\ caller.results # <<>>
                              /\ caller.results[Len(caller.results)].exc = "none"
                           THEN [key \in DOMAIN @ |->
                                    IF key = "times" THEN <<>>
                                    ELSE caller.results[Len(caller.results)].ret[1][key]]
                           ELSE @])
    /\ idx' = Parser(prog, lines).first
    /\ pc' = PcAfter(loc', "loop")
    /\ UNCHANGED <<prog, lines, caller>>

\* the call: the file is read and the code before the loop runs
Begin ==
    /\ pc = "start"
    /\ loc' = Preamble(Parser(prog, lines), lines, Locals(Parser(prog, lines), loc.args))
    /\ idx' = Parser(prog, lines).first
    /\ pc' = PcAfter(loc', "loop")
    /\ UNCHANGED <<prog, lines, caller>>

\* the loop body on the line at idx
Line ==
    /\ pc = "loop" /\ idx <= Len(lines)
    /\ loc' = LineOf(prog, Parser(prog, lines), loc, lines[idx])
    /\ idx' = idx + 1
    /\ pc' = PcAfter(loc', "loop")
    /\ UNCHANGED <<prog, lines, caller>>

\* the loop is over: the code after it, up to the return
Return ==
    /\ pc = "loop" /\ idx > Len(lines)
    /\ loc' = ReturnOf(prog, loc)
    /\ pc' = PcAfter(loc', "done")
    /\ UNCHANGED <<prog, lines, idx, caller>>

Next == Begin \/ Line \/ Return

(***************************************************************************)
(* Input files.                                                            *)
(***************************************************************************)
MaxLines == 3

\* str(n) for an int n >= 0
Num(n) ==
    [i \in 1..Kth({k \in 1..9 : n < 10 ^ k}, 1) |->
        DigitChars[((n \div 10 ^ (Kth({k \in 1..9 : n < 10 ^ k}, 1) - i)) % 10) + 1]]

\* sep.join(toks[lo..hi])
RECURSIVE Join(_, _, _, _)
Join(toks, sep, lo, hi) ==
    IF lo > hi THEN <<>>
    ELSE IF lo = hi THEN toks[lo]
    ELSE Join(toks, sep, lo, (lo + hi) \div 2) \o sep
             \o Join(toks, sep, (lo + hi) \div 2 + 1, hi)

\* a line of n columns, "0" everywhere but the columns (0-based) of `at`
Row(n, at, sep) ==
    Join([i \in 1..n |-> IF (i - 1) \in DOMAIN at THEN at[i - 1] ELSE <<"0">>],
         sep, 1, n) \o <<"\n">>

\* every sequence over S of length 0..n
SeqsUpTo(S, n) == UNION {[1..k -> S] : k \in 0..n}

Bad == <<"x">>

NoArgs == [none |-> 0]

\* files of the 13-column loss format: timestamp, increment (column 10),
\* total objects (column 12); a short row, a bad total, a line of a space
\* and a form feed
loss_inputs ==
    [pre  |-> {<<<<"timestamp", "\n">>>>},
     rows |-> {Row(13, (0 :> Num(1)) @@ (1 :> Num(4)) @@ (10 :> Num(10))
                       @@ (12 :> Num(1000)), Comma),
               Row(13, (0 :> Num(2)) @@ (3 :> Num(6)) @@ (10 :> Num(5))
                       @@ (12 :> Num(1000)), Comma),
               Row(14, (0 :> Num(3)) @@ (10 :> Num(0)) @@ (12 :> Num(0)), Comma),
               Row(13, (0 :> Num(4)) @@ (10 :> <<"-">> \o Num(3)) @@ (12 :> Num(990)), Comma),
               Row(10, (0 :> Num(5)), Comma),
               Row(13, (0 :> Num(6)) @@ (10 :> Num(7)) @@ (12 :> Bad), Comma),
               Row(13, (0 :> Num(7)) @@ (12 :> Num(1000000)), Comma),
               <<" ", "\f", "\n">>},
     args |-> {NoArgs}]

\* a header of the snaps format 2, its columns in the order `names`
snaps_header(names) ==
    Join([i \in 1..Len(names) |-> <<names[i]>>], CommaSpace, 1, Len(names)) \o <<"\n">>

\* files of the snaps format 2: a header with the seven columns read and
\* one not read, or without the last column read, or no header, the file
\* starting with its rows or having no line; rows with timestamp,
\* increment, objects in cache and the last column, a bad last column, a
\* short row, a blank line
snaps_inputs(args) ==
    [pre  |-> {<<snaps_header(<<"timestamp", "tubes_wetted_percent", "m_lost_percent",
                                "objects_lost_since_last_snap",
                                "total objects in the system", "total objects in cache",
                                "tubes_expired_by_reads_percent",
                                "tubes_expired_by_time_percent">>)>>,
               <<snaps_header(<<"timestamp", "tubes_wetted_percent", "m_lost_percent",
                                "objects_lost_since_last_snap",
                                "total objects in the system", "total objects in cache",
                                "tubes_expired_by_reads_percent">>)>>,
               <<>>},
     rows |-> {Row(8, (0 :> Num(1)) @@ (3 :> Num(10)) @@ (5 :> Num(2)) @@ (7 :> Num(1)), CommaSpace),
               Row(8, (0 :> Num(2)) @@ (3 :> Num(5)) @@ (5 :> Num(1)) @@ (7 :> Num(2)), CommaSpace),
               Row(8, (0 :> Num(3)) @@ (3 :> Num(0)) @@ (5 :> Num(0)) @@ (7 :> Num(3)), CommaSpace),
               Row(8, (0 :> Num(4)) @@ (3 :> Num(7)) @@ (5 :> Num(5)) @@ (7 :> Bad), CommaSpace),
               Row(5, (0 :> Num(5)) @@ (3 :> Num(1)), CommaSpace),
               <<"\n">>},
     args |-> args]

\* n lines before the data, the second of them the header
Pre(n, header) == [i \in 1..n |-> IF i = 2 THEN header ELSE <<"#", "\n">>]

\* files of the simulation output format, four header lines and rows of 12
\* columns: timestamp, lost objects (8), lost percent (9), failed reads
\* (10), failed percent (11); a timestamp written 49e-1, rows with a bad
\* column 8 or 9, a short row
sim_inputs ==
    [pre  |-> {Pre(4, <<"#", "\n">>)},
     rows |-> {Row(12, (0 :> Num(1)) @@ (9 :> Num(2)), Comma),
               Row(12, (0 :> Num(49) \o <<"e", "-">> \o Num(1)) @@ (9 :> Num(3)), Comma),
               Row(12, (0 :> <<"-">> \o Num(2)), Comma),
               Row(12, (0 :> <<"-">> \o Num(1)), Comma),
               Row(12, (0 :> <<"i", "n", "f">>), Comma),
               Row(12, (0 :> Num(2)) @@ (8 :> Bad), Comma),
               Row(12, (0 :> Num(3)) @@ (9 :> Bad), Comma),
               Row(10, (0 :> Num(4)), Comma)},
     args |-> {NoArgs}]

\* files of the 27-column format of compare_group_reads_per_policy: rows
\* with a bad column 22 or 17, a row with the increment -2 in column 14, a
\* short row, a separator line, a blank line
grp_inputs ==
    [pre  |-> {Pre(1, <<>>)},
     rows |-> {Row(27, (0 :> Num(1)) @@ (13 :> Num(5)) @@ (22 :> Num(2)) @@ (25 :> Num(10))
                       @@ (14 :> Num(1)) @@ (17 :> Num(1)), Comma),
               Row(27, (0 :> Num(2)) @@ (13 :> Num(6)) @@ (22 :> Num(3)) @@ (25 :> Num(20))
                       @@ (17 :> Num(2)), Comma),
               Row(27, (0 :> Num(3)) @@ (22 :> Bad), Comma),
               Row(27, (0 :> Num(4)) @@ (22 :> Num(7)) @@ (17 :> Bad), Comma),
               Row(27, (0 :> Num(6)) @@ (14 :> <<"-">> \o Num(2)), Comma),
               Row(20, (0 :> Num(5)), Comma),
               <<"=", "=", "=", "\n">>,
               <<"\n">>},
     args |-> {NoArgs}]

\* files of the 17-column format of the folder comparisons: three lines
\* before the data, the second with the parameters, the first written
\* 1e3; rows with raw times 0, 365, 730, a row of 10 columns, a bad
\* column 16
folders_inputs ==
    [pre  |-> {Pre(3, Row(8, (1 :> Num(1) \o <<"e">> \o Num(3)) @@ (3 :> Num(100))
                             @@ (7 :> Num(27)), CommaSpace))},
     rows |-> {Row(17, (0 :> Num(0)), CommaSpace),
               Row(17, (0 :> Num(365)) @@ (9 :> Num(1)), CommaSpace),
               Row(17, (0 :> Num(730)) @@ (9 :> Num(2)), CommaSpace),
               Row(17, (0 :> Num(3285)) @@ (9 :> Num(3)), CommaSpace),
               Row(10, (0 :> Num(5)), CommaSpace),
               Row(17, (0 :> Num(6)) @@ (16 :> Bad), CommaSpace)},
     args |-> {[access_rate |-> 100], [access_rate |-> 500]}]

\* files of the 14-column format of visualize_snapshot_metrics
vis_inputs ==
    [pre  |-> {Pre(3, <<"#", "\n">>)},
     rows |-> {Row(14, (0 :> Num(365)) @@ (9 :> Num(1)) @@ (13 :> Num(2)), CommaSpace),
               Row(14, (0 :> Num(730)) @@ (9 :> Num(3)), CommaSpace),
               Row(14, (0 :> Bad), CommaSpace),
               Row(14, (0 :> Num(3)) @@ (13 :> Bad), CommaSpace),
               Row(13, (0 :> Num(4)), CommaSpace)},
     args |-> {NoArgs}]

\* files of the 25-column format of compare_refactored_group_read
refact_inputs ==
    [pre  |-> {Pre(1, <<>>)},
     rows |-> {Row(25, (0 :> Num(1)) @@ (1 :> Num(5)) @@ (22 :> Num(10)), Comma),
               Row(25, (0 :> Num(2)) @@ (5 :> Num(7)) @@ (22 :> Num(5)), Comma),
               Row(25, (0 :> Num(3)) @@ (22 :> Bad), Comma),
               Row(25, (0 :> Num(4)) @@ (3 :> Bad), Comma),
               Row(24, (0 :> Num(5)), Comma)},
     args |-> {NoArgs}]

\* second lines of a snaps file: ", 1000, 3650, 0", ", 1000.0, 3650.5, 0",
\* the first with a third field x, 0 or -3650, and a line of two fields
snaps_second_lines ==
    {Row(4, (0 :> <<>>) @@ (1 :> Num(1000)) @@ (2 :> Num(3650)), CommaSpace),
     Row(4, (0 :> <<>>) @@ (1 :> Num(1000) \o <<".", "0">>)
                @@ (2 :> Num(3650) \o <<".", "5">>), CommaSpace),
     Row(4, (0 :> <<>>) @@ (1 :> Num(1000)) @@ (2 :> Bad), CommaSpace),
     Row(4, (0 :> <<>>) @@ (1 :> Num(1000)) @@ (2 :> Num(0)), CommaSpace),
     Row(4, (0 :> <<>>) @@ (1 :> Num(1000)) @@ (2 :> <<"-">> \o Num(3650)),
         CommaSpace),
     Row(2, (0 :> <<>>) @@ (1 :> Num(1000)), CommaSpace)}

\* files of the 10-column format of track_tube_status
tts_inputs ==
    [pre  |-> {Pre(4, h) : h \in snaps_second_lines},
     rows |-> {Row(10, (0 :> Num(0)), CommaSpace),
               Row(10, (0 :> Num(365)) @@ (9 :> Num(1)), CommaSpace),
               Row(10, (0 :> <<"-">> \o Num(365)) @@ (9 :> Num(2)), CommaSpace),
               Row(10, (0 :> Num(5)) @@ (9 :> Bad), CommaSpace),
               Row(9, (0 :> Num(6)), CommaSpace)},
     args |-> {NoArgs}]

\* files of the 16-column format with triplets, rows with and without a
\* trailing comma
trip_inputs ==
    [pre  |-> {Pre(4, h) : h \in snaps_second_lines},
     rows |-> {Row(17, (0 :> Num(365)) @@ (9 :> Num(1)) @@ (16 :> <<>>), CommaSpace),
               Row(16, (0 :> Num(3650)) @@ (9 :> Num(2)), CommaSpace),
               Row(16, (0 :> Num(5)) @@ (15 :> Bad), CommaSpace),
               Row(15, (0 :> Num(6)), CommaSpace)},
     args |-> {NoArgs}]

\* files of the 21-column format of batch_compare_folders, second lines
\* also without a number in the third field, for 100 and 500 accesses a
\* day and for the access rate -100
bcf_inputs ==
    [pre  |-> {Pre(3, Row(4, (0 :> <<>>) @@ (1 :> Num(1000)) @@ (2 :> Num(3650)),
                          CommaSpace)),
               Pre(3, Row(4, (0 :> <<>>) @@ (1 :> Num(1000)) @@ (2 :> Bad), CommaSpace)),
               Pre(3, Row(2, (0 :> <<>>) @@ (1 :> Num(1000)), CommaSpace))},
     rows |-> {Row(21, (0 :> Num(0)), CommaSpace),
               Row(21, (0 :> Num(365)) @@ (9 :> Num(1)), CommaSpace),
               Row(21, (0 :> Num(730)) @@ (9 :> Num(2)), CommaSpace),
               Row(21, (0 :> Num(3285)) @@ (9 :> Num(3)), CommaSpace),
               Row(21, (0 :> Num(5)) @@ (12 :> Bad), CommaSpace),
               Row(20, (0 :> Num(6)), CommaSpace)},
     args |-> {[access_rate |-> 100], [access_rate |-> 500], [access_rate |-> -100]}]

\* files of the 21-column format of visualize_comprehensive_metrics: second
\* lines with the maximum time 3650, 0 or x, one of two fields and a file
\* of one line; the access rate 100 or 0 as argument, or None with a path
\* that names the rate 100, the rate 0 or no rate
vcm_inputs ==
    [pre  |-> {Pre(3, h) : h \in snaps_second_lines} \cup {Pre(1, <<>>)},
     rows |-> {Row(21, (0 :> Num(0)), CommaSpace),
               Row(21, (0 :> Num(365)) @@ (9 :> Num(1)), CommaSpace),
               Row(21, (0 :> Num(5)) @@ (12 :> Bad), CommaSpace),
               Row(20, (0 :> Num(6)), CommaSpace)},
     args |-> {[filepath |-> <<"snaps", ".txt">>, access_rate |-> Some(100)],
               [filepath |-> <<"snaps", ".txt">>, access_rate |-> Some(0)],
               [filepath |-> <<"snaps", ".txt">>, access_rate |-> None],
               [filepath |-> <<"accessRate", "_">> \o Num(100) \o <<".txt">>,
                access_rate |-> None],
               [filepath |-> <<"accessRate", " ">> \o Num(0) \o <<".txt">>,
                access_rate |-> None]}]

\* files of the 18-column format of batch_visualize_complete, one row with
\* an empty first field, one with an empty sixth field
bvc_inputs ==
    [pre  |-> {Pre(3, <<"#", "\n">>)},
     rows |-> {Row(18, (0 :> Num(1)) @@ (9 :> Num(1)), CommaSpace),
               Row(19, (0 :> <<>>) @@ (1 :> Num(3)) @@ (10 :> Num(2)), CommaSpace),
               Row(19, (0 :> Num(4)) @@ (5 :> <<>>) @@ (10 :> Num(8)), CommaSpace),
               Row(18, (0 :> Num(77)) @@ (9 :> Num(3)), Comma),
               Row(18, (0 :> Num(0)), CommaSpace),
               Row(18, (0 :> Num(5)) @@ (12 :> Bad), CommaSpace),
               Row(17, (0 :> Num(6)), CommaSpace)},
     args |-> {NoArgs}]

\* files of the triplets formats: no line, two lines, or three whose third
\* names the copysets, 3-replica, 2-replica columns or none of them; rows
\* of 19 and of 18 columns, a bad column 12 or 16, a short row, a time of 0
bvt_inputs ==
    [pre  |-> {<<>>, Pre(2, <<"#", "\n">>)}
              \cup {Pre(2, <<"#", "\n">>) \o <<snaps_header(h)>> :
                       h \in {<<"time", "copysets_3_active_pct", "copysets_2_active_pct">>,
                              <<"time", "objects_3_replicas_pct", "objects_2_replicas_pct">>,
                              <<"time", "objects_2_replicas_pct", "objects_1_replicas_pct">>,
                              <<"time", "m_lost_percent">>}},
     rows |-> {Row(19, (0 :> Num(1)) @@ (9 :> Num(1)) @@ (15 :> Num(3)) @@ (18 :> Num(4)),
                   CommaSpace),
               Row(18, (0 :> Num(77)) @@ (15 :> Num(5)), CommaSpace),
               Row(19, (0 :> Num(5)) @@ (12 :> Bad), CommaSpace),
               Row(19, (0 :> Num(2)) @@ (16 :> Bad), CommaSpace),
               Row(14, (0 :> Num(6)), CommaSpace),
               Row(19, (0 :> Num(0)), CommaSpace)},
     args |-> {NoArgs}]

\* the files and arguments script p is run on
Inputs(p) ==
    CASE p \in {"analyze_object_loss_percentage", "analyze_objects_departed",
                 "analyze_complete_object_fate"} -> loss_inputs
      [] p = "analyze_snaps_format2" ->
             snaps_inputs({[total_objects |-> 1000], [total_objects |-> 3]})
      [] p = "compare_policies_snaps" -> snaps_inputs({NoArgs})
      [] p \in {"main", "compare"} -> sim_inputs
      [] p = "compare_group_reads_per_policy" -> grp_inputs
      [] p \in {"compare_folders_comprehensive", "compare_four_folders"} -> folders_inputs
      [] p = "visualize_snapshot_metrics" -> vis_inputs
      [] p = "compare_refactored_group_read" -> refact_inputs
      [] p \in {"track_tube_status", "compare_single_vs_group"} -> tts_inputs
      [] p = "track_tube_status_with_triplets" -> trip_inputs
      [] p = "batch_compare_folders" -> bcf_inputs
      [] p = "visualize_comprehensive_metrics" -> vcm_inputs
      [] p \in {"batch_visualize_complete", "create_folder_comparisons",
                "batch_visualize_storage_metrics"} -> bvc_inputs
      [] p \in {"batch_visualize_triplets", "create_triplets_comparisons"} -> bvt_inputs

\* script p is about to be called on one of its files
Start(p, in) ==
    \E pre \in in.pre, rows \in SeqsUpTo(in.rows, MaxLines), a \in in.args :
        /\ prog = p
        /\ lines = pre \o rows
        /\ idx = 0
        /\ loc = [args |-> a]
        /\ pc = "start"
        /\ caller = None

(***************************************************************************)
(* Running sums and percentages of a caller-supplied total.                *)
(***************************************************************************)
\* one of the scripts P is about to be called
Run(P) == \E p \in P : Start(p, Inputs(p))

SpecCumulative ==
    Run({"analyze_object_loss_percentage", "analyze_snaps_format2",
         "compare_policies_snaps"}) /\ [][Next]_vars

\* xs[1] + ... + xs[n] on ints
RECURSIVE SumTo(_, _)
SumTo(xs, n) == IF n = 0 THEN 0 ELSE SumTo(xs, n - 1) + xs[n]

\* TRUE iff the parser cfg makes a record of the line: it is not skipped
\* as blank, has the columns required and every conversion succeeds
IsRecord(cfg, rawline) ==
    LET parts == Tokens(cfg.parts, rawline)
    IN  /\ ~Skipped(cfg.skip, Strip(rawline))
        /\ Len(parts) >= cfg.min
        /\ \A j \in 1..Len(cfg.stmts) :
               Field(parts, cfg.stmts[j].col, cfg.stmts[j].conv).err = "none"

\* the indices of the data lines read so far that make a record
Kept == {j \in Parser(prog, lines).first..(idx - 1) : IsRecord(Parser(prog, lines), lines[j])}

\* the converted fields of a line that makes a record, in statement order
RecordOf(cfg, rawline) ==
    LET parts == Tokens(cfg.parts, rawline)
    IN  [j \in 1..Len(cfg.stmts) |->
            Field(parts, cfg.stmts[j].col, cfg.stmts[j].conv).v]

\* the records of the data lines read so far, in file order
Records ==
    LET kept == Kept
    IN  [k \in 1..Cardinality(kept) |->
            RecordOf(Parser(prog, lines), lines[Kth(kept, k)])]

\* the increments of the rows parse_new_snapshot_file read so far
loss_Increments == LET recs == Records IN [k \in 1..Len(recs) |-> recs[k][2]]

\* the increments calculate_metrics was given (floats)
fmt2_Increments == loc.data.objects_lost_since_snap

\* the float sum of the first n entries of xs, added up from the int 0 in
\* list order
RECURSIVE FSumTo(_, _)
FSumTo(xs, n) == IF n = 0 THEN FromInt(0) ELSE FAdd(FSumTo(xs, n - 1), xs[n])

\* C1: cumulative lost objects is a running total of the parsed
\* increments: entry i is entry i-1 plus increment i, starting from 0, the
\* last entry is the sum of all increments, and with non-negative
\* increments the column never decreases
C1_RunningTotal ==
    /\ prog = "analyze_object_loss_percentage" /\ pc \in {"loop", "done"} =>
         LET inc == loss_Increments
             cum == loc.data.cumulative_lost
         IN  /\ Len(cum) = Len(inc)
             /\ \A i \in 1..Len(cum) :
                    cum[i] = (IF i = 1 THEN 0 ELSE cum[i - 1]) + inc[i]
             /\ loc.acc.running_lost_count = SumTo(inc, Len(inc))
             /\ Len(cum) > 0 => cum[Len(cum)] = SumTo(inc, Len(inc))
             /\ (\A i \in 1..Len(inc) : inc[i] >= 0) =>
                    \A i \in 2..Len(cum) : cum[i - 1] <= cum[i]
    /\ prog = "analyze_snaps_format2" /\ pc = "done" =>
         LET inc == fmt2_Increments
             cum == loc.ret[1].metrics.cumulative_lost
         IN  /\ Len(cum) = Len(inc)
             /\ \A i \in 1..Len(cum) :
                    cum[i] = FAdd(IF i = 1 THEN FromInt(0) ELSE cum[i - 1], inc[i])
             /\ Len(cum) > 0 => cum[Len(cum)] = FSumTo(inc, Len(inc))
             /\ (\A i \in 1..Len(inc) : FLe(FZero, inc[i])) =>
                    \A i \in 2..Len(cum) : FLe(cum[i - 1], cum[i])

\* three rows with increments 10, 5, 0 were read and the count returned
C1_Witness ==
    /\ prog = "analyze_object_loss_percentage" /\ pc = "done"
    /\ loss_Increments = <<10, 5, 0>>
    /\ loc.ret[1].cumulative_lost = <<10, 15, 15>>

\* C10: calculate_metrics divides every cumulative count by the one
\* total_objects of the call: lost_objects_percent[i] is
\* cumulative_lost[i] / total_objects * 100; a total of 1000 with
\* increments 10, 5, 0 gives [10, 15, 15] and [1.0, 1.5, 1.5]
C10_PercentOfTotal ==
    /\ prog = "analyze_snaps_format2" /\ pc = "done" =>
         LET inc == fmt2_Increments
             m   == loc.ret[1].metrics
         IN  /\ Len(m.lost_objects_percent) = Len(inc)
             /\ \A i \in 1..Len(inc) :
                    m.lost_objects_percent[i] =
                        FMul(FDiv(FSumTo(inc, i), loc.args.total_objects), 100)
             /\ (/\ loc.args.total_objects = 1000
                 /\ inc = <<FromInt(10), FromInt(5), FromInt(0)>>)
                => /\ m.cumulative_lost = <<FromInt(10), FromInt(15), FromInt(15)>>
                   /\ m.lost_objects_percent =
                          <<FromInt(1), FDiv(FromInt(3), 2), FDiv(FromInt(3), 2)>>
    /\ prog = "compare_policies_snaps" /\ pc = "done" /\ loc.ret[1].metrics # None =>
         LET inc == fmt2_Increments
             m   == loc.ret[1].metrics[1]
         IN  /\ Len(m.lost_objects_percent) = Len(inc)
             /\ \A i \in 1..Len(inc) :
                    m.lost_objects_percent[i] =
                        FMul(FDiv(FSumTo(inc, i), DefaultTotalObjects), 100)

\* calculate_metrics returned for increments 10, 5, 0 and a total of 1000
C10_Witness ==
    /\ prog = "analyze_snaps_format2" /\ pc = "done"
    /\ loc.args.total_objects = 1000
    /\ fmt2_Increments = <<FromInt(10), FromInt(5), FromInt(0)>>
    /\ loc.ret[1].metrics.lost_objects_percent[2] = FDiv(FromInt(3), 2)

(***************************************************************************)
(* Column lengths.                                                         *)
(***************************************************************************)
SpecColumns == Run({"main", "compare", "analyze_snaps_format2"}) /\ [][Next]_vars

\* the list the parser of script p keeps the raw time of its records in
TimeColumnOf(p) ==
    CASE p = "analyze_snaps_format2" -> "timestamp"
      [] p = "compare_folders_comprehensive" -> "time_stamps"
      [] OTHER -> "timestamps"

TimeColumn == TimeColumnOf(prog)

\* C2: after any sequence of data lines, also lines with a non-numeric
\* value in one required field, every output column of a parser is as long
\* as its time column
C2_ColumnsAsLongAsTime ==
    pc \in {"loop", "done"} =>
        \A key \in DOMAIN loc.data : Len(loc.data[key]) = Len(loc.data[TimeColumn])

(***************************************************************************)
(* Malformed lines and the order of records.                               *)
(***************************************************************************)
SpecSkip ==
    Run({"compare_group_reads_per_policy", "compare_folders_comprehensive",
         "compare_four_folders"}) /\ [][Next]_vars

SpecOrder ==
    Run({"visualize_snapshot_metrics", "compare_refactored_group_read"})
        /\ [][Next]_vars

\* TRUE iff the line has fewer than 27 comma-separated fields or one of the
\* six fields parse_file converts is not a number of its type
grp_Malformed(rawline) ==
    LET parts == Split(Strip(rawline), Comma)
    IN  \/ Len(parts) < 27
        \/ \E c \in {0, 13} : PyFloat(parts[c + 1]).err # "none"
        \/ \E c \in {22, 25, 14, 17} : PyInt(parts[c + 1]).err # "none"

\* C3: in compare_group_reads_per_policy.parse_file a data line with fewer
\* than 27 comma-separated fields, or with a non-numeric required field, is
\* stepped over without ending the loop, and the three running totals and
\* every output list are after the line what they were before it
C3_MalformedLineLeavesTotals ==
    [][(/\ prog = "compare_group_reads_per_policy"
        /\ pc = "loop" /\ idx <= Len(lines)
        /\ grp_Malformed(lines[idx]))
       => (/\ pc' = "loop"
           /\ idx' = idx + 1
           /\ loc'.acc = loc.acc
           /\ loc'.data = loc.data)]_vars

\* a line of 27 fields with a non-numeric required field has just been
\* stepped over, after a line that made the running totals non-zero
C3_Witness ==
    /\ prog = "compare_group_reads_per_policy" /\ pc = "loop" /\ idx > 3
    /\ grp_Malformed(lines[idx - 1])
    /\ Len(Split(Strip(lines[idx - 1]), Comma)) >= 27
    /\ loc.acc.cumulative_lost > 0
    /\ loc.acc.cumulative_expired_time > 0
    /\ Len(loc.data.timestamps) > 0

\* the number of data lines read that made no record
Malformed == (idx - Parser(prog, lines).first) - Cardinality(Kept)

\* C4: every malformed data line is stepped over, adds exactly 1 to a count
\* of skipped lines that the caller of parse_snapshot_file_detailed can
\* read, and no exception leaves the call
C4_SkippedLinesCounted ==
    /\ prog \in {"compare_folders_comprehensive", "compare_four_folders"} =>
            pc # "raised"
    /\ prog = "compare_folders_comprehensive" /\ pc = "done" /\ Malformed > 0 =>
            /\ "skipped" \in DOMAIN loc.ret[1]
            /\ loc.ret[1].skipped = Malformed
    /\ prog = "compare_four_folders" /\ pc = "done" /\ Malformed > 0
       /\ loc.ret[1] # None =>
            /\ "skipped" \in DOMAIN loc.ret[1][1]
            /\ loc.ret[1][1].skipped = Malformed

\* C5: the records visualize_snapshot_metrics.parse_snapshot_file and
\* compare_refactored_group_read.parse_new_snapshot_file hold are the valid
\* data lines read, one record per line in file order: every list has one
\* entry per valid line and entry k is made from the k-th valid line, so
\* nothing is reordered or deduplicated
C5_RecordsInFileOrder ==
    /\ prog = "visualize_snapshot_metrics" /\ pc \in {"loop", "done"} =>
          /\ LET recs == Records
             IN  \A key \in DOMAIN loc.data : Len(loc.data[key]) = Len(recs)
          /\ LET recs == Records
             IN  \A k \in 1..Len(recs) :
                    /\ loc.data.times[k] = FDiv(FromInt(recs[k][1]), 36500)
                    /\ loc.data.m_lost_percents[k] = recs[k][2]
                    /\ loc.data.exhausted_tubes_pcts[k] = recs[k][3]
          /\ pc = "done" => loc.ret[1] = loc.data
    /\ prog = "compare_refactored_group_read" /\ pc \in {"loop", "done"} =>
          /\ LET recs == Records
             IN  \A key \in DOMAIN loc.data : Len(loc.data[key]) = Len(recs)
          /\ LET recs == Records
             IN  \A k \in 1..Len(recs) :
                    /\ loc.data.time[k] = recs[k][1]
                    /\ loc.data.wet_tubes_percent[k] = recs[k][2]
                    /\ loc.data.objects_in_cache_percent[k] = recs[k][3]
                    /\ loc.data.tubes_expired_by_time_percent[k] = recs[k][4]
                    /\ loc.data.tubes_expired_by_reads_percent[k] = recs[k][5]
                    /\ loc.data.total_expired_percent[k] = recs[k][6]
          /\ pc = "done" /\ Len(Records) > 0 => loc.ret[1] = Some(loc.data)

\* parse_snapshot_file returned for a file whose first two data lines are
\* the same valid line: two equal consecutive records
C5_Witness ==
    /\ prog = "visualize_snapshot_metrics" /\ pc = "done"
    /\ Len(lines) >= 5 /\ lines[4] = lines[5]
    /\ {4, 5} \subseteq Kept
    /\ Len(loc.ret[1].times) >= 2
    /\ loc.ret[1].times[1] = loc.ret[1].times[2]
    /\ loc.ret[1].m_lost_percents[1] = loc.ret[1].m_lost_percents[2]

(***************************************************************************)
(* Conversions of raw time to years.                                       *)
(***************************************************************************)
SpecHeader ==
    Run({"track_tube_status", "track_tube_status_with_triplets",
         "compare_single_vs_group"}) /\ [][Next]_vars

SpecTime ==
    Run({"main", "track_tube_status", "batch_compare_folders"}) /\ [][Next]_vars

SpecMax == Run({"main", "batch_visualize_complete"}) /\ [][Next]_vars

SpecRate ==
    Run({"compare_folders_comprehensive", "batch_compare_folders"})
        /\ [][Next]_vars

\* the floats xs never decrease
NonDecreasing(xs) == \A i \in 2..Len(xs) : FLe(xs[i - 1], xs[i])

\* the raw times of the records read so far, as ints where the script reads
\* them with int()
RawTimes ==
    IF prog \in {"main", "compare_folders_comprehensive"}
    THEN loc.data[TimeColumnOf(prog)]
    ELSE LET recs == Records IN [k \in 1..Len(recs) |-> recs[k][1]]

\* the same as floats
RawTimesAsFloats ==
    IF prog \in {"main", "compare_folders_comprehensive"} THEN RawTimes
    ELSE LET raw == RawTimes IN [k \in 1..Len(raw) |-> FromInt(raw[k])]

\* the years a script holds for these records
Years ==
    CASE prog = "main" -> loc.ret[1].years
      [] prog = "compare_folders_comprehensive" -> loc.ret[1].time
      [] prog = "batch_visualize_complete" -> loc.ret[1].times
      [] prog = "batch_compare_folders" -> loc.data.times
      [] OTHER -> loc.data.years

\* TRUE iff the years of the records read so far are computed: the scripts
\* that rescale after the loop have them on return only
YearsComputed ==
    IF prog \in {"main", "compare_folders_comprehensive", "batch_visualize_complete"}
    THEN pc = "done" ELSE pc \in {"loop", "done"}

\* TRUE iff the number the script scales the raw times with keeps their
\* order: in main.py the largest raw time is 0 (the times stay as they
\* are) or the scale factor max_years / largest raw time is a positive
\* finite number; in track_tube_status the header's maximum time, where one
\* was read, is at least 0 (0 selects the fallback divisor); in
\* batch_compare_folders the access rate is positive
ScaleKeepsOrder(raw) ==
    CASE prog = "main" ->
             \/ raw = <<>>
             \/ FIsZero(FMax(raw))
             \/ /\ FLt(FZero, FDivF(FromInt(MaxYears), FMax(raw)))
                /\ ~FIsInf(FDivF(FromInt(MaxYears), FMax(raw)))
      [] prog = "track_tube_status" ->
             loc.hdr.max_time = None \/ FLe(FZero, loc.hdr.max_time[1])
      [] prog = "batch_compare_folders" -> loc.args.access_rate > 0
      [] OTHER -> TRUE

\* if the raw times do not decrease (and, when restricted, the scaling
\* keeps the order), the years do not decrease
TimeOrderKept(restricted) ==
    (/\ prog \in {"main", "track_tube_status", "batch_compare_folders"}
     /\ YearsComputed)
    /\ prog = "main" /\ pc = "done"
    /\ loc.data.timestamps = <<FromInt(1), FDiv(FromInt(49), 10)>>
    /\ ScaleKeepsOrder(loc.data.timestamps)
    /\ FLt(FZero, loc.ret[1].years[1])
    /\ FLt(loc.ret[1].years[1], loc.ret[1].years[2])

\* the fields of the second line as parse_snaps_file splits them
HeaderParts == Split(Strip(lines[2]), CommaSpace)

\* C7: when the third comma-space separated field of the second line is a
\* number other than zero, parse_snaps_file gives every record the year
\* (timestamp / max_time) * 10 with that number as max_time
C7_HeaderMaxTimeDivides ==
    (/\ prog \in {"track_tube_status", "track_tube_status_with_triplets",
                   "compare_single_vs_group"}
     /\ pc \in {"loop", "done"}
     /\ Len(HeaderParts) > 2
     /\ PyFloat(HeaderParts[3]).err = "none"
     /\ ~FIsZero(PyFloat(HeaderParts[3]).v))
    => LET raw == RawTimes
       IN  /\ Len(loc.data.years) = Len(raw)
           /\ \A k \in 1..Len(raw) :
                  loc.data.years[k] =
                      FMul(FDivF(FromInt(raw[k]), PyFloat(HeaderParts[3]).v), 10)

\* C8: max-normalization gives the raw time t the year
\* (t / largest raw time) * 10: the largest raw time gets exactly 10, and
\* the years are as many as the raw times, in their order
C8_LargestTimeGetsTen ==
    (/\ prog \in {"main", "batch_visualize_complete"}
     /\ pc = "done"
     /\ RawTimes # <<>>
     /\ ~FIsZero(FMax(RawTimesAsFloats)))
    => LET raw == RawTimesAsFloats
       IN  /\ Len(Years) = Len(raw)
           /\ \A k \in 1..Len(raw) :
                  /\ Years[k] = FMul(FDivF(raw[k], FMax(raw)), 10)
                  /\ raw[k] = FMax(raw) => Years[k] = FromInt(10)

\* C9: under the fixed-rate policy every year is
\* raw_time / (accesses_per_day * 365) in compare_folders_comprehensive and
\* in batch_compare_folders alike; the raw times 0, 365, 730 at 100
\* accesses a day give 0.0, 0.01, 0.02
C9_FixedRateYears ==
    (/\ prog \in {"compare_folders_comprehensive", "batch_compare_folders"}
     /\ YearsComputed)
    => LET raw == RawTimesAsFloats
       IN  /\ Len(Years) = Len(raw)
           /\ \A k \in 1..Len(raw) :
                  Years[k] = FDiv(raw[k], loc.args.access_rate * 365)
           /\ (/\ loc.args.access_rate = 100
               /\ raw = <<FromInt(0), FromInt(365), FromInt(730)>>)
              => Years = <<FZero, FDiv(FromInt(1), 100), FDiv(FromInt(2), 100)>>

(***************************************************************************)
(* The reference total of the departure, loss and object-fate analyses.    *)
(***************************************************************************)
SpecReference ==
    Run({"analyze_objects_departed", "analyze_object_loss_percentage",
         "analyze_complete_object_fate"}) /\ [][Next]_vars

\* the total-objects-in-system values of the records read so far
Totals ==
    LET cfg  == Parser(prog, lines)
        kept == Kept
    IN  [k \in 1..Cardinality(kept) |->
            Field(Tokens(cfg.parts, lines[Kth(kept, k)]),
                  cfg.stmts[Len(cfg.stmts)].col, cfg.stmts[Len(cfg.stmts)].conv).v]

\* the first entry of totals greater than 0, None when there is none
FirstPositive(totals) ==
    IF \A k \in 1..Len(totals) : totals[k] <= 0 THEN None
    ELSE Some(totals[CHOOSE k \in 1..Len(totals) :
                        totals[k] > 0 /\ \A j \in 1..(k - 1) : totals[j] <= 0])

\* C11: initial_objects of the departure, loss and object-fate parsers is
\* the total-objects-in-system value of the first record read whose value
\* is greater than 0, None while there is no such record, and a record read
\* after it was set does not change it
C11_ReferenceIsFirstPositiveTotal ==
    (/\ prog \in {"analyze_objects_departed", "analyze_object_loss_percentage",
                   "analyze_complete_object_fate"}
     /\ pc \in {"loop", "done"})
    => /\ loc.acc.initial_objects = FirstPositive(Totals)
       /\ pc = "done" => loc.ret[1].initial_objects = loc.acc.initial_objects

\* parse_snapshot_for_departures read a record with total 0, then one with
\* total 1000, then one with total 990, and kept 1000
C11_Witness ==
    /\ prog = "analyze_objects_departed" /\ pc = "loop"
    /\ Totals = <<0, 1000, 990>>
    /\ loc.acc.initial_objects = Some(1000)

\* C12: when every total-objects-in-system value read from a file is zero,
\* parse_snapshot_for_departures does not return a departure-percentage
\* column made of zeros
C12_NoZeroPercentWithoutReference ==
    (/\ prog = "analyze_objects_departed" /\ pc = "done"
     /\ Totals # <<>>
     /\ \A k \in 1..Len(Totals) : Totals[k] = 0)
    => ~(/\ loc.ret[1].data.departure_percentage # <<>>
         /\ \A i \in 1..Len(loc.ret[1].data.departure_percentage) :
                loc.ret[1].data.departure_percentage[i] = FZero)

SpecSuppressed ==
    Run({"analyze_object_loss_percentage", "analyze_complete_object_fate"})
        /\ [][Next]_vars

\* the columns of the result that hold counts or times, not percentages
CountColumns ==
    IF prog = "analyze_object_loss_percentage"
    THEN <<loc.ret[1].times, loc.ret[1].cumulative_lost,
           loc.ret[1].total_objects_in_system>>
    ELSE <<loc.ret[1].data.times, loc.ret[1].data.cumulative_read_cache,
           loc.ret[1].data.cumulative_read_tubes, loc.ret[1].data.cumulative_read_total,
           loc.ret[1].data.cumulative_lost, loc.ret[1].data.total_objects_in_system>>

\* the percentage columns of the result
PercentColumns ==
    IF prog = "analyze_object_loss_percentage"
    THEN <<loc.ret[1].loss_percentages>>
    ELSE <<loc.ret[1].read_cache_pct, loc.ret[1].read_tubes_pct,
           loc.ret[1].read_total_pct, loc.ret[1].loss_pct, loc.ret[1].remaining_pct>>

\* C13: parse_new_snapshot_file and parse_complete_snapshot_file return the
\* time and count columns with one entry per record read whether or not a
\* reference total was found, the times and totals being those of the
\* records; the percentage columns are empty without a reference total and
\* have one entry per record with one
C13_OnlyPercentSuppressed ==
    (/\ prog \in {"analyze_object_loss_percentage", "analyze_complete_object_fate"}
     /\ pc = "done")
    => LET recs == Records
           counts == CountColumns
       IN  /\ \A c \in 1..Len(counts) : Len(counts[c]) = Len(recs)
           /\ \A k \in 1..Len(recs) :
                  /\ counts[1][k] = recs[k][1]
                  /\ counts[Len(counts)][k] = recs[k][Len(recs[k])]
           /\ loc.ret[1].initial_objects = None =>
                  \A c \in 1..Len(PercentColumns) : PercentColumns[c] = <<>>
           /\ loc.ret[1].initial_objects # None =>
                  \A c \in 1..Len(PercentColumns) :
                     Len(PercentColumns[c]) = Len(recs)

\* parse_complete_snapshot_file returned two records with total 0: six
\* columns of two entries, no reference total, no percentages
C13_Witness ==
    /\ prog = "analyze_complete_object_fate" /\ pc = "done"
    /\ Totals = <<0, 0>>
    /\ loc.ret[1].initial_objects = None
    /\ Len(loc.ret[1].data.cumulative_lost) = 2
    /\ loc.ret[1].loss_pct = <<>>

SpecDeparted == Run({"analyze_objects_departed"}) /\ [][Next]_vars

\* C14: every record parse_snapshot_for_departures reads from the first one
\* with a positive total on gets objects departed = reference total -
\* current total and departure percentage = departed / reference total *
\* 100; the totals 1000000, 1000000, 0 give departed 0, 0, 1000000 and
\* percentages 0, 0, 100
C14_DepartedFromReference ==
    (prog = "analyze_objects_departed" /\ pc \in {"loop", "done"})
    => LET totals == Totals
           positive == {k \in 1..Len(totals) : totals[k] > 0}
       IN  /\ Len(loc.data.objects_departed) = Len(totals)
           /\ Len(loc.data.departure_percentage) = Len(totals)
           /\ \A k \in 1..Len(totals) :
                  (positive # {} /\ k >= Kth(positive, 1)) =>
                      /\ loc.data.objects_departed[k] =
                             totals[Kth(positive, 1)] - totals[k]
                      /\ loc.data.departure_percentage[k] =
                             FMul(FDiv(FromInt(totals[Kth(positive, 1)] - totals[k]),
                                       totals[Kth(positive, 1)]), 100)
           /\ totals = <<1000000, 1000000, 0>> =>
                  /\ loc.data.objects_departed = <<0, 0, 1000000>>
                  /\ loc.data.departure_percentage = <<FZero, FZero, FromInt(100)>>

\* parse_snapshot_for_departures returned for the totals 1000000, 1000000, 0
C14_Witness ==
    /\ prog = "analyze_objects_departed" /\ pc = "done"
    /\ Totals = <<1000000, 1000000, 0>>
    /\ loc.ret[1].data.objects_departed = <<0, 0, 1000000>>
    /\ loc.ret[1].data.departure_percentage[3] = FromInt(100)

(***************************************************************************)
(* The column layout detected from the third line.                         *)
(***************************************************************************)
SpecVariant ==
    Run({"batch_visualize_triplets", "create_triplets_comparisons"}) /\ [][Next]_vars

\* the column names detection looks for
KnownColumns == {"copysets_3_active_pct", "objects_3_replicas_pct", "objects_2_replicas_pct"}

\* TRUE iff the file has no third line or its third line names no known column
Unrecognized ==
    \/ Len(lines) < 3
    \/ \A c \in KnownColumns : ~Contains(Strip(lines[3]), <<c>>)

\* C15: a file of fewer than three lines, or whose third line contains none
\* of the known column names, makes parse_snapshot_file return None: the
\* loop over the data rows is never entered and no list takes a value
C15_UnrecognizedReturnsNone ==
    (/\ prog \in {"batch_visualize_triplets", "create_triplets_comparisons"}
     /\ pc # "start"
     /\ Unrecognized)
    => /\ pc = "done"
       /\ loc.ret = Some(None)
       /\ \A key \in DOMAIN loc.data : loc.data[key] = <<>>

\* a file with an unknown third line and two data rows has been answered None
C15_Witness ==
    /\ prog = "batch_visualize_triplets"
    /\ Len(lines) = 5
    /\ Unrecognized
    /\ pc = "done"
    /\ loc.ret = Some(None)

\* TRUE iff the third line names objects_2_replicas_pct and neither a
\* 3-replica nor a copysets column
PairwiseShaped ==
    /\ Len(lines) >= 3
    /\ Contains(Strip(lines[3]), <<"objects_2_replicas_pct">>)
    /\ ~Contains(Strip(lines[3]), <<"objects_3_replicas_pct">>)
    /\ ~Contains(Strip(lines[3]), <<"copysets_3_active_pct">>)

\* C16: batch_visualize_triplets rejects a pairwise-shaped file: it returns
\* None and never a series whose 3-replica list holds zeros
C16_PairwiseRejected ==
    (/\ prog = "batch_visualize_triplets"
     /\ pc # "start"
     /\ PairwiseShaped)
    => /\ pc = "done"
       /\ loc.ret = Some(None)
       /\ loc.data.objects_3_replicas_pct = <<>>

(***************************************************************************)
(* The fields of a line with empty fields.                                 *)
(***************************************************************************)
SpecTokens ==
    Run({"batch_visualize_complete", "create_folder_comparisons",
         "batch_visualize_storage_metrics"}) /\ [][Next]_vars

\* C17: on every line that made a record, the string converted for the
\* column at offset k is the k-th comma-delimited token of the line,
\* stripped of whitespace: empty fields before it do not shift it
C17_FieldIsKthToken ==
    (/\ prog \in {"batch_visualize_complete", "create_folder_comparisons",
                  "batch_visualize_storage_metrics"}
     /\ pc # "start")
    => LET cfg == Parser(prog, lines)
       IN  \A j \in Kept : \A s \in 1..Len(cfg.stmts) :
               Tokens(cfg.parts, lines[j])[cfg.stmts[s].col + 1]
                   = Strip(Split(lines[j], Comma)[cfg.stmts[s].col + 1])

(***************************************************************************)
(* The loops over the files of a directory.  caller is the loop's state:   *)
(* files the sorted list, i the number of files the loop has taken,        *)
(* attempted their positions in the order taken, results the file and the  *)
(* outcome of every call made, and the two counters.  pc is "next" at the  *)
(* top of the loop and "finished" after it.                                *)
(***************************************************************************)
MaxFiles == 3

\* group_read_values of compare_group_reads_per_policy.main
group_read_values == <<"1", "5", "10", "20">>

\* what the loop of script p calls for a file, the test it makes of the
\* value returned, whether it counts successes and errors, the number of
\* files it parses for one plot, and whether the plot is made outside the
\* try block, so that an exception of the plot leaves main
Driver(p) ==
    CASE p = "batch_visualize_snapshots" ->
             [calls |-> "parse_snapshot_file", nodata |-> "not times", counts |-> TRUE,
              every |-> 1, fatal |-> FALSE]
      [] p = "batch_visualize_triplets" ->
             [calls |-> "parse_snapshot_file",
              nodata |-> "data is None or not data['times']", counts |-> TRUE,
              every |-> 1, fatal |-> FALSE]
      [] p = "compare_group_reads_per_policy" ->
             [calls |-> "parse_file", nodata |-> "not data['timestamps']",
              counts |-> FALSE, every |-> Len(group_read_values), fatal |-> TRUE]
      [] p = "batch_process_tube_status" ->
             [calls |-> "subprocess.run", nodata |-> "result.returncode != 0",
              counts |-> TRUE, every |-> 1, fatal |-> FALSE]

\* the ways subprocess.run ends: the child's return code, the timeout, or
\* the child not started
SubprocessOutcomes ==
    {[exc |-> "none", ret |-> Some(0)], [exc |-> "none", ret |-> Some(1)],
     [exc |-> "TimeoutExpired", ret |-> None], [exc |-> "FileNotFoundError", ret |-> None]}

\* the test the loop makes of the value r returned for a file
NoData(test, r) ==
    CASE test = "not times" -> r.times = <<>>
      [] test = "data is None or not data['times']" ->
             IF r = None THEN TRUE ELSE r.data.times = <<>>
      [] test = "not data['timestamps']" -> r.timestamps = <<>>
      [] test = "result.returncode != 0" -> r # 0

\* TRUE iff the pass of the loop reaches  success_count += 1: the call
\* returned, with data, and the plot was saved
Succeeded(d, l, plot) ==
    /\ l.exc = "none"
    /\ ~NoData(d.nodata, l.ret[1])
    /\ d.calls = "subprocess.run" \/ plot = "saved"

\* the files of the directories the loops run over: no data row, one or
\* two good rows, a row with time 0 alone, a row too short; for
\* compare_group_reads_per_policy one good row, another, both, a row with
\* a bad column; for the
\* triplets a file of no line and third lines naming no, the 3-replica or
\* the 2-replica columns; for the pairs of batch_process_tube_status the
\* contents are the child's matter
BatchFiles(p) ==
    CASE p = "batch_visualize_snapshots" ->
             {Pre(3, <<"#", "\n">>) \o rows :
                 rows \in {<<>>,
                           <<Row(14, (0 :> Num(365)) @@ (9 :> Num(1)), CommaSpace)>>,
                           <<Row(14, (0 :> Num(365)) @@ (9 :> Num(1)), CommaSpace),
                             Row(14, (0 :> Num(730)) @@ (13 :> Num(2)), CommaSpace)>>,
                           <<Row(14, (0 :> Num(0)), CommaSpace)>>,
                           <<Row(13, (0 :> Num(4)), CommaSpace)>>}}
      [] p = "compare_group_reads_per_policy" ->
             {Pre(1, <<>>) \o rows :
                 rows \in {<<Row(27, (0 :> Num(1)) @@ (22 :> Num(2)), Comma)>>,
                           <<Row(27, (0 :> Num(2)) @@ (22 :> Num(3)) @@ (17 :> Num(2)), Comma)>>,
                           <<Row(27, (0 :> Num(1)) @@ (22 :> Num(2)), Comma),
                             Row(27, (0 :> Num(2)) @@ (22 :> Num(3)) @@ (17 :> Num(2)), Comma)>>,
                           <<Row(27, (0 :> Num(3)) @@ (22 :> Bad), Comma)>>}}
      [] p = "batch_visualize_triplets" ->
             {<<>>}
             \cup {Pre(2, <<"#", "\n">>) \o <<snaps_header(<<"time", "m_lost_percent">>),
                      Row(19, (0 :> Num(1)) @@ (15 :> Num(3)), CommaSpace)>>}
             \cup {Pre(2, <<"#", "\n">>)
                       \o <<snaps_header(<<"time", "objects_3_replicas_pct">>)>> \o rows :
                      rows \in {<<Row(19, (0 :> Num(1)) @@ (15 :> Num(3)), CommaSpace)>>,
                                <<Row(19, (0 :> Num(0)), CommaSpace)>>}}
             \cup {Pre(2, <<"#", "\n">>)
                       \o <<snaps_header(<<"time", "objects_2_replicas_pct">>),
                            Row(18, (0 :> Num(77)) @@ (15 :> Num(5)), CommaSpace)>>}
      [] p = "batch_process_tube_status" -> {<<>>}

\* the parameter patterns MaxFiles files make, one file for each of the
\* group_read_values, and one pattern at least
MaxPatterns == Max(1, MaxFiles \div Len(group_read_values))

\* the lists of files the loop of script p runs over: up to MaxFiles files
\* of a directory; for compare_group_reads_per_policy the files of up to
\* MaxPatterns parameter patterns, one for each of the group_read_values
BatchLists(p) ==
    IF Driver(p).every = 1 THEN SeqsUpTo(BatchFiles(p), MaxFiles)
    ELSE {[k \in 1..(Len(ps) * Driver(p).every) |->
              ps[((k - 1) \div Driver(p).every) + 1][((k - 1) % Driver(p).every) + 1]] :
             ps \in SeqsUpTo([1..Driver(p).every -> BatchFiles(p)], MaxPatterns)}

\* the loop of script p is about to run over a list of its files
StartBatch(p) ==
    \E files \in BatchLists(p) :
        /\ prog = p
        /\ lines = <<>>
        /\ idx = 0
        /\ loc = [args |-> NoArgs]
        /\ pc = "next"
        /\ caller = [kind |-> "loop", files |-> files, i |-> 0, attempted |-> <<>>,
                     results |-> <<>>, success_count |-> 0, error_count |-> 0]

\* the loop of one of the scripts P is about to run
RunBatch(P) == \E p \in P : StartBatch(p)

\* TRUE iff the call with outcome r returned data
HasData(d, r) == r.exc = "none" /\ ~NoData(d.nodata, r.ret[1])

\* the outcome of the plot a pass makes, "none" in a pass that makes none:
\* plot_metrics after a call that returned data; for
\* compare_group_reads_per_policy plot_group_reads_comparison after the
\* last file of a pattern, when the calls of all its files returned data
Plotted(d, c, l, plot) ==
    IF /\ d.calls # "subprocess.run"
       /\ c.i % d.every = 0
       /\ HasData(d, l)
       /\ \A k \in (c.i - d.every + 1)..(c.i - 1) : HasData(d, c.results[k])
    THEN plot ELSE "none"

\* where the pass ends: at the top of the loop, or out of main when the
\* plot made outside the try block raised
PassEnd(d, plotted) == IF d.fatal /\ plotted = "raised" THEN "aborted" ELSE "next"

\* the loop takes its next file and calls the parser, or runs the child
\* process to its end
Call ==
    /\ pc = "next" /\ caller.i < Len(caller.files)
    /\ caller' = [caller EXCEPT !.i = @ + 1, !.attempted = Append(@, caller.i + 1)]
    /\ lines' = caller.files[caller.i + 1]
    /\ idx' = 0
    /\ IF Driver(prog).calls = "subprocess.run"
       THEN \E out \in SubprocessOutcomes :
                /\ loc' = [args |-> NoArgs, exc |-> out.exc, ret |-> out.ret]
                /\ pc' = IF out.exc = "none" THEN "done" ELSE "raised"
       ELSE /\ loc' = [args |-> NoArgs]
            /\ pc' = "start"
    /\ UNCHANGED prog

\* the rest of the pass with an except clause that prints and does not count
Counted_RaiseUncounted ==
    /\ caller # None /\ caller.kind = "loop" /\ pc \in {"done", "raised"}
    /\ \E plot \in {"saved", "raised"} :
           /\ caller' = [caller EXCEPT
               !.results = Append(@, [lines |-> lines, exc |-> loc.exc, ret |-> loc.ret,
                                      plot |-> Plotted(Driver(prog), caller, loc, plot)]),
               !.success_count =
                   IF Driver(prog).counts /\ Succeeded(Driver(prog), loc, plot)
                   THEN @ + 1 ELSE @,
               !.error_count =
                   IF /\ Driver(prog).counts
                      /\ loc.exc = "none"
                      /\ NoData(Driver(prog).nodata, loc.ret[1])
                   THEN @ + 1 ELSE @]
           /\ pc' = PassEnd(Driver(prog), Plotted(Driver(prog), caller, loc, plot))
    /\ UNCHANGED <<prog, lines, idx, loc>>

\* the rest of the pass once the call returned or raised: no data, an
\* exception of the call or of the plot count as an error, a plot saved as
\* a success
Counted ==
    /\ caller # None /\ caller.kind = "loop" /\ pc \in {"done", "raised"}
    /\ \E plot \in {"saved", "raised"} :
           /\ caller' = [caller EXCEPT
               !.results = Append(@, [lines |-> lines, exc |-> loc.exc, ret |-> loc.ret,
                                      plot |-> Plotted(Driver(prog), caller, loc, plot)]),
               !.success_count =
                   IF Driver(prog).counts /\ Succeeded(Driver(prog), loc, plot)
                   THEN @ + 1 ELSE @,
               !.error_count =
                   IF Driver(prog).counts /\ ~Succeeded(Driver(prog), loc, plot)
                   THEN @ + 1 ELSE @]
           /\ pc' = PassEnd(Driver(prog), Plotted(Driver(prog), caller, loc, plot))
    /\ UNCHANGED <<prog, lines, idx, loc>>

\* the list is exhausted: the loop ends and the summary is printed
Finish ==
    /\ pc = "next" /\ caller.i = Len(caller.files)
    /\ pc' = "finished"
    /\ UNCHANGED <<prog, lines, idx, loc, caller>>

NextBatch == Call \/ Begin \/ Line \/ Return \/ Counted \/ Finish

SpecSession ==
    RunBatch({"compare_group_reads_per_policy", "batch_visualize_snapshots"})
        /\ [][NextBatch]_vars

\* what parse_file of compare_group_reads_per_policy makes of a file, read
\* off its content: one entry in every list for each data line of 27 or
\* more fields whose six fields are numbers, the lost objects and the
\* expired tubes summed from the first such line on, 1000000 objects
grp_OfContent(file) ==
    LET good == {j \in 2..Len(file) : ~grp_Malformed(file[j])}
        n == Cardinality(good)
        parts == [k \in 1..n |-> Split(Strip(file[Kth(good, k)]), Comma)]
        count == [c \in {22, 25, 14, 17} |-> [k \in 1..n |-> PyInt(parts[k][c + 1]).v]]
    IN  [exc |-> "none",
         ret |-> Some(
             [timestamps |-> [k \in 1..n |-> PyFloat(parts[k][1]).v],
              lost_objects_pct |->
                  [k \in 1..n |-> FMul(FDiv(FromInt(SumTo(count[22], k)), 1000000), 100)],
              wet_tubes_pct |-> [k \in 1..n |-> PyFloat(parts[k][14]).v],
              cache_pct |->
                  [k \in 1..n |-> FMul(FDiv(FromInt(count[25][k]), 1000000), 100)],
              expired_total_pct |->
                  [k \in 1..n |-> SumTo(count[14], k) + SumTo(count[17], k)],
              expired_by_time_pct |-> [k \in 1..n |-> SumTo(count[17], k)]])]

\* what parse_snapshot_file of batch_visualize_snapshots makes of a file,
\* read off its content: one entry in every list for each line after the
\* third with 14 or more fields whose fields 0, 9 and 13 are numbers, the
\* times as (t / largest time) * 10; ZeroDivisionError when the largest
\* time is 0
bvs_OfContent(file) ==
    LET good == {j \in 4..Len(file) :
                    /\ Len(Split(Strip(file[j]), CommaSpace)) >= 14
                    /\ PyInt(Split(Strip(file[j]), CommaSpace)[1]).err = "none"
                    /\ PyFloat(Split(Strip(file[j]), CommaSpace)[10]).err = "none"
                    /\ PyFloat(Split(Strip(file[j]), CommaSpace)[14]).err = "none"}
        n == Cardinality(good)
        parts == [k \in 1..n |-> Split(Strip(file[Kth(good, k)]), CommaSpace)]
        raw == [k \in 1..n |-> PyInt(parts[k][1]).v]
        largest == CHOOSE m \in {raw[i] : i \in 1..n} : \A i \in 1..n : raw[i] <= m
    IN  IF n > 0 /\ largest = 0
        THEN [exc |-> "ZeroDivisionError", ret |-> None]
        ELSE [exc |-> "none",
              ret |-> Some(
                  [times |-> [k \in 1..n |-> FMul(FDiv(FromInt(raw[k]), largest), 10)],
                   m_lost_percents |-> [k \in 1..n |-> PyFloat(parts[k][10]).v],
                   exhausted_tubes_pcts |-> [k \in 1..n |-> PyFloat(parts[k][14]).v]])]

\* the outcome of the parser of script p on a file, read off its content
OfContent(p, file) ==
    IF p = "compare_group_reads_per_policy" THEN grp_OfContent(file)
    ELSE bvs_OfContent(file)

\* C18: every call of the parser made in one run ends, whatever was parsed
\* before it, as the content of its file alone determines, and two calls
\* recorded in the run on files of the same content ended the same way,
\* with the same exception or the same value returned
C18_SameFileSameOutput ==
    (/\ caller # None /\ caller.kind = "loop"
     /\ prog \in {"compare_group_reads_per_policy", "batch_visualize_snapshots"})
    => /\ pc \in {"done", "raised"}
              => /\ loc.exc = OfContent(prog, lines).exc
                 /\ loc.ret = OfContent(prog, lines).ret
       /\ \A i, j \in 1..Len(caller.results) :
              caller.results[i].lines = caller.results[j].lines
              => /\ caller.results[i].exc = caller.results[j].exc
                 /\ caller.results[i].ret = caller.results[j].ret

\* a file with a record was parsed, then a file with two records, then
\* the first again, to the result its content determines
C18_Witness ==
    /\ prog = "compare_group_reads_per_policy"
    /\ caller # None
    /\ Len(caller.results) = 3
    /\ caller.results[1].lines = caller.results[3].lines
    /\ caller.results[1].lines # caller.results[2].lines
    /\ caller.results[1].ret = caller.results[3].ret
    /\ caller.results[1].exc = "none" /\ caller.results[2].exc = "none"
    /\ caller.results[1].ret[1].timestamps # <<>>
    /\ Len(caller.results[2].ret[1].timestamps) = 2
    /\ caller.results[3].ret = OfContent(prog, caller.results[3].lines).ret

SpecBatch ==
    RunBatch({"batch_visualize_snapshots", "batch_visualize_triplets",
              "batch_process_tube_status"}) /\ [][NextBatch]_vars

\* C19: the loop takes the files in list order, each once; every pass
\* ends in one of the two counters, a call or plot that raises and a file
\* without data in error_count; when the loop ends success_count +
\* error_count is the number of files
C19_EveryFileCounted ==
    (/\ caller # None /\ caller.kind = "loop"
     /\ prog \in {"batch_visualize_snapshots", "batch_visualize_triplets",
                  "batch_process_tube_status"})
    => /\ caller.attempted = [k \in 1..caller.i |-> k]
       /\ caller.success_count + caller.error_count = Len(caller.results)
       /\ Len(caller.results) = IF pc = "next" \/ pc = "finished" THEN caller.i ELSE caller.i - 1
       /\ pc = "finished" =>
              /\ caller.i = Len(caller.files)
              /\ caller.success_count + caller.error_count = Len(caller.files)
       /\ caller.error_count = Cardinality({k \in 1..Len(caller.results) :
              \/ caller.results[k].exc # "none"
              \/ caller.results[k].plot = "raised"
              \/ NoData(Driver(prog).nodata, caller.results[k].ret[1])})

\* a loop over three files ended: the parse of one raised, one had no
\* data, one was plotted
C19_Witness ==
    /\ prog = "batch_visualize_snapshots"
    /\ pc = "finished"
    /\ Len(caller.files) = 3
    /\ caller.results[1].exc = "ZeroDivisionError"
    /\ caller.results[2].exc = "none" /\ caller.results[2].ret[1].times = <<>>
    /\ caller.results[3].exc = "none" /\ caller.results[3].ret[1].times # <<>>
    /\ caller.success_count = 1
    /\ caller.error_count = 2

(***************************************************************************)
(* The mains of the command-line scripts.  caller is main's state: argv,   *)
(* the files that exist by path, the parsers entered, what was printed     *)
(* and the exit status.  pc is "main" before main runs and "exited" after  *)
(* the process ended.                                                      *)
(***************************************************************************)
MaxArgs == 3

\* main of script p: the number of path arguments it requires, whether it
\* tests that the first exists, the parsers it calls on the arguments in
\* order, whether it tests the times returned
Cli(p) ==
    CASE p = "analyze_objects_departed" ->
             [required |-> 1, exists |-> TRUE,
              parses |-> <<"parse_snapshot_for_departures">>, nodata |-> TRUE]
      [] p = "visualize_snapshot_metrics" ->
             [required |-> 1, exists |-> TRUE,
              parses |-> <<"parse_snapshot_file">>, nodata |-> TRUE]
      [] p = "track_tube_status" ->
             [required |-> 2, exists |-> FALSE,
              parses |-> <<"parse_log_file", "parse_snaps_file">>, nodata |-> FALSE]

\* the first parser of main whose path argument cannot be opened, one more
\* than their number when all can
FirstMissing(cli, argv, files) ==
    Kth({i \in 1..Len(cli.parses) : argv[i + 1] \notin DOMAIN files}
            \cup {Len(cli.parses) + 1}, 1)

\* the contents of the file that exists
CliFiles(p) ==
    CASE p = "analyze_objects_departed" ->
             {<<<<"timestamp", "\n">>>> \o rows :
                 rows \in {<<>>,
                           <<Row(13, (0 :> Num(1)) @@ (12 :> Num(1000)), Comma)>>,
                           <<Row(13, (0 :> Num(1)) @@ (12 :> Num(1000)), Comma),
                             Row(13, (0 :> Num(2)) @@ (12 :> Num(990)), Comma)>>,
                           <<Row(13, (0 :> Num(3)) @@ (12 :> Num(0)), Comma)>>}}
      [] p = "visualize_snapshot_metrics" ->
             {Pre(3, <<"#", "\n">>) \o rows :
                 rows \in {<<>>,
                           <<Row(14, (0 :> Num(365)) @@ (9 :> Num(1)), CommaSpace)>>,
                           <<Row(14, (0 :> Num(365)) @@ (9 :> Num(1)), CommaSpace),
                             Row(14, (0 :> Num(730)) @@ (9 :> Num(3)), CommaSpace)>>}}
      [] p = "track_tube_status" ->
             {Pre(4, Row(4, (0 :> <<>>) @@ (1 :> Num(1000)) @@ (2 :> Num(3650)),
                         CommaSpace)) \o rows :
                 rows \in {<<>>,
                           <<Row(10, (0 :> Num(365)) @@ (9 :> Num(1)), CommaSpace)>>}}

\* script p is about to be run with up to MaxArgs arguments, each the
\* path of the file that exists or of one that does not
StartMain(p) ==
    \E args \in SeqsUpTo({"a.txt", "missing.txt"}, MaxArgs), file \in CliFiles(p) :
        /\ prog = p
        /\ lines = <<>>
        /\ idx = 0
        /\ loc = [args |-> NoArgs]
        /\ pc = "main"
        /\ caller = [kind |-> "main", argv |-> <<p>> \o args, files |-> ("a.txt" :> file),
                     entered |-> <<>>, out |-> <<>>, status |-> None]

\* one of the scripts P is about to be run
RunMain(P) == \E p \in P : StartMain(p)

\* main up to its first call of a parser that opens its file: the usage
\* message, the test that the file exists where main makes it, the calls
\* whose open raises
Main ==
    /\ pc = "main"
    /\ IF Len(caller.argv) < Cli(prog).required + 1
       THEN /\ caller' = [caller EXCEPT !.out = <<"Usage">>, !.status = Some(1)]
            /\ pc' = "exited"
            /\ UNCHANGED <<lines, loc>>
       ELSE IF Cli(prog).exists /\ caller.argv[2] \notin DOMAIN caller.files
       THEN /\ caller' = [caller EXCEPT !.out = <<"Error: File not found">>,
                                        !.status = Some(1)]
            /\ pc' = "exited"
            /\ UNCHANGED <<lines, loc>>
       ELSE IF FirstMissing(Cli(prog), caller.argv, caller.files) <= Len(Cli(prog).parses)
       THEN /\ caller' = [caller EXCEPT !.entered =
                             SubSeq(Cli(prog).parses, 1,
                                    FirstMissing(Cli(prog), caller.argv, caller.files))]
            /\ loc' = [args |-> NoArgs, exc |-> "FileNotFoundError", ret |-> None]
            /\ pc' = "raised"
            /\ UNCHANGED lines
       ELSE /\ caller' = [caller EXCEPT !.entered = Cli(prog).parses]
            /\ lines' = caller.files[caller.argv[Len(Cli(prog).parses) + 1]]
            /\ loc' = [args |-> NoArgs]
            /\ pc' = "start"
    /\ idx' = 0
    /\ UNCHANGED prog

\* TRUE iff main stops at its test of the times returned
NoTimes(p, r) ==
    CASE p = "analyze_objects_departed" -> r.data.times = <<>>
      [] p = "visualize_snapshot_metrics" -> r.times = <<>>
      [] OTHER -> FALSE

\* the exit status of main after the parser: 1 with a traceback for an
\* exception nothing catches, 1 for no data, and after the summary and the
\* plot 0, or 1 when they raise, as the summary of
\* analyze_objects_departed does for initial_objects None
ExitStatus(p, l, rest) ==
    IF l.exc # "none" THEN 1
    ELSE IF NoTimes(p, l.ret[1]) THEN 1
    ELSE IF p = "analyze_objects_departed" /\ l.ret[1].initial_objects = None THEN 1
    ELSE IF rest = "raised" THEN 1 ELSE 0

\* main after the parser returned or raised, up to the end of the process
Exit ==
    /\ caller # None /\ caller.kind = "main" /\ pc \in {"done", "raised"}
    /\ \E rest \in {"completed", "raised"} :
           caller' = [caller EXCEPT
               !.status = Some(ExitStatus(prog, loc, rest)),
               !.out = Append(@, IF ExitStatus(prog, loc, rest) = 0 THEN "complete"
                                 ELSE IF loc.exc = "none" /\ NoTimes(prog, loc.ret[1])
                                 THEN "Error: No valid data found in file"
                                 ELSE "Traceback")]
    /\ pc' = "exited"
    /\ UNCHANGED <<prog, lines, idx, loc>>

NextMain == Main \/ Begin \/ Line \/ Return \/ Exit

SpecCli ==
    RunMain({"analyze_objects_departed", "visualize_snapshot_metrics",
             "track_tube_status"}) /\ [][NextMain]_vars

\* TRUE iff the command line lacks a required path argument
ArgMissing == Len(caller.argv) < Cli(prog).required + 1

\* TRUE iff a required path argument names no file
PathMissing ==
    /\ ~ArgMissing
    /\ \E i \in 2..(Cli(prog).required + 1) : caller.argv[i] \notin DOMAIN caller.files

\* C20: run without a required path argument main prints the usage
\* message, run with a path that does not exist it prints an error; in
\* both cases it exits with a status other than 0 without having entered
\* a parser
C20_BadInvocationExitsBeforeParsing ==
    (/\ caller # None /\ caller.kind = "main"
     /\ pc # "main"
     /\ ArgMissing \/ PathMissing)
    => /\ pc = "exited"
       /\ caller.status = Some(1)
       /\ caller.entered = <<>>
       /\ caller.out = <<IF ArgMissing THEN "Usage" ELSE "Error: File not found">>

(***************************************************************************)
(* Percentages of the reference total.                                     *)
(***************************************************************************)
SpecBounded ==
    Run({"analyze_objects_departed", "analyze_complete_object_fate"}) /\ [][Next]_vars

\* TRUE iff the float x lies within 0 and 100
WithinPercent(x) == FLe(FZero, x) /\ FLe(x, FromInt(100))

\* C21: for every record whose total lies between 0 and the reference
\* total, the departure percentage parse_snapshot_for_departures appended
\* and the remaining percentage parse_complete_snapshot_file returns lie
\* within 0 and 100
C21_PercentWithinBounds ==
    /\ (prog = "analyze_objects_departed" /\ pc \in {"loop", "done"}
            /\ loc.acc.initial_objects # None)
       => LET totals == Totals
          IN  \A k \in 1..Len(totals) :
                  (0 <= totals[k] /\ totals[k] <= loc.acc.initial_objects[1])
                  => WithinPercent(loc.data.departure_percentage[k])
    /\ (prog = "analyze_complete_object_fate" /\ pc = "done"
            /\ loc.acc.initial_objects # None)
       => LET totals == Totals
          IN  \A k \in 1..Len(totals) :
                  (0 <= totals[k] /\ totals[k] <= loc.acc.initial_objects[1])
                  => WithinPercent(loc.ret[1].remaining_pct[k])

\* parse_complete_snapshot_file returned for the totals 1000, 990, 0: the
\* remaining percentages 100, 99, 0
C21_Witness ==
    /\ prog = "analyze_complete_object_fate" /\ pc = "done"
    /\ Totals = <<1000, 990, 0>>
    /\ loc.ret[1].remaining_pct[1] = FromInt(100)
    /\ loc.ret[1].remaining_pct[2] = FromInt(99)
    /\ loc.ret[1].remaining_pct[3] = FZero

(***************************************************************************)
(* Total expired of compare_group_reads_per_policy.                        *)
(***************************************************************************)
SpecExpired == Run({"compare_group_reads_per_policy"}) /\ [][Next]_vars

\* the expired-by-reads (column 5 of a record) or expired-by-time (column
\* 6) increments of the records recs
grp_Increments(recs, column) == [k \in 1..Len(recs) |-> recs[k][column]]

\* C22: in compare_group_reads_per_policy.parse_file total expired at
\* record i is the sum of the expired-by-reads increments plus the sum of
\* the expired-by-time increments of the records 1..i; with non-negative
\* increments it never decreases and is never less than expired by time
\* at the same index
C22_TotalExpired ==
    (prog = "compare_group_reads_per_policy" /\ pc \in {"loop", "done"}) =>
        LET recs == Records
            reads == grp_Increments(recs, 5)
            time == grp_Increments(recs, 6)
            total == loc.data.expired_total_pct
            bytime == loc.data.expired_by_time_pct
        IN  /\ Len(total) = Len(reads) /\ Len(bytime) = Len(reads)
            /\ \A i \in 1..Len(total) :
                   total[i] = SumTo(reads, i) + SumTo(time, i)
            /\ (\A i \in 1..Len(reads) : reads[i] >= 0 /\ time[i] >= 0) =>
                   /\ \A i \in 2..Len(total) : total[i - 1] <= total[i]
                   /\ \A i \in 1..Len(total) : total[i] >= bytime[i]

\* parse_file returned after records with the increments 1 and 1, 0 and
\* 2, 1 and 1: total expired 2, 4, 6 over expired by time 1, 3, 4
C22_Witness ==
    /\ prog = "compare_group_reads_per_policy" /\ pc = "done"
    /\ Len(loc.ret[1].timestamps) = 3
    /\ grp_Increments(Records, 5) = <<1, 0, 1>>
    /\ grp_Increments(Records, 6) = <<1, 2, 1>>
    /\ loc.ret[1].expired_total_pct = <<2, 4, 6>>
    /\ loc.ret[1].expired_by_time_pct = <<1, 3, 4>>

(***************************************************************************)
(* A header without one of the columns read.                               *)
(***************************************************************************)
SpecSnaps ==
    Run({"analyze_snaps_format2", "compare_policies_snaps"}) /\ [][Next]_vars

\* the column names parse_snaps_file looks for in the header
RequiredColumns ==
    {"timestamp", "objects_lost_since_last_snap", "total objects in the system",
     "total objects in cache", "tubes_wetted_percent",
     "tubes_expired_by_reads_percent", "tubes_expired_by_time_percent"}

\* TRUE iff the header line has no column of one of the required names
LacksColumn(header) ==
    \E name \in RequiredColumns : col_indices(snaps_columns(header), name) < 0

\* C23: when the header line of a snaps file lacks one of the required
\* column names the file is unrecognized: the call either ends with an
\* error or returns no record in any column, and no derived metrics are
\* computed from the file
C23_HeaderLackingColumnIsFatal ==
    (/\ prog \in {"analyze_snaps_format2", "compare_policies_snaps"}
     /\ pc \in {"loop", "done"}
     /\ LacksColumn(readline(lines))) =>
        /\ \A list \in DOMAIN loc.data : loc.data[list] = <<>>
        /\ (pc = "done" /\ prog = "compare_policies_snaps") => loc.ret[1].metrics = None
        /\ (pc = "done" /\ prog = "analyze_snaps_format2") =>
               \A m \in DOMAIN loc.ret[1].metrics : loc.ret[1].metrics[m] = <<>>

(***************************************************************************)
(* All columns or none of batch_visualize_triplets.                        *)
(***************************************************************************)
\* C24: in batch_visualize_triplets.parse_snapshot_file a data row with at
\* least 15 non-empty tokens, under any detected variant, either adds one
\* entry to each of the nine output columns (times, the four graph metrics
\* and the four replica columns) or adds nothing to any of them
C24_RowInAllColumnsOrNone ==
    [][(/\ prog = "batch_visualize_triplets"
        /\ pc = "loop" /\ idx <= Len(lines) /\ idx' = idx + 1
        /\ Len(Tokens(Parser(prog, lines).parts, lines[idx])) >= 15)
       => \/ \A list \in DOMAIN loc.data :
                 Len(loc'.data[list]) = Len(loc.data[list]) + 1
          \/ loc'.data = loc.data]_vars

(***************************************************************************)
(* main.main: the loop over the .txt files of the input folder.  caller   *)
(* is main's state: the files in sorted order, the number of the file in  *)
(* hand, the files plotted and the exception that left main.  Nothing in  *)
(* main catches an exception: pc is "aborted" once one has left it.       *)
(***************************************************************************)
\* the files of the input folder: four lines before the data, then no
\* row, one or two rows of 12 values, a row with a bad value 8 alone or
\* after a good row, a row of 11 values
FolderFiles ==
    {Pre(4, <<"#", "\n">>) \o rows :
        rows \in {<<>>,
                  <<Row(12, (0 :> Num(5)) @@ (8 :> Num(1)), Comma)>>,
                  <<Row(12, (0 :> Num(5)) @@ (8 :> Num(1)), Comma),
                    Row(12, (0 :> Num(10)) @@ (8 :> Num(2)), Comma)>>,
                  <<Row(12, (0 :> Num(3)) @@ (8 :> Bad), Comma)>>,
                  <<Row(12, (0 :> Num(5)) @@ (8 :> Num(1)), Comma),
                    Row(12, (0 :> Num(7)) @@ (9 :> Bad), Comma)>>,
                  <<Row(11, (0 :> Num(4)), Comma)>>}}

\* main is about to loop over the sorted files of the folder
StartFolder ==
    \E files \in SeqsUpTo(FolderFiles, MaxFiles) :
        /\ prog = "main"
        /\ lines = <<>>
        /\ idx = 0
        /\ loc = [args |-> NoArgs]
        /\ pc = "next"
        /\ caller = [kind |-> "folder", files |-> files, i |-> 0, plotted |-> <<>>,
                     exc |-> "none"]

\* for i, file in enumerate(files, 1): data = parse_simulation_file(file)
Process ==
    /\ pc = "next" /\ caller.i < Len(caller.files)
    /\ caller' = [caller EXCEPT !.i = @ + 1]
    /\ lines' = caller.files[caller.i + 1]
    /\ idx' = 0
    /\ loc' = [args |-> NoArgs]
    /\ pc' = "start"
    /\ UNCHANGED prog

\* TRUE iff one of min(data['lost_objects']), ..., max(data['failed_percent'])
\* is taken of an empty list
EmptyRange(data) ==
    \E key \in {"lost_objects", "lost_percent", "failed_reads", "failed_percent"} :
        data[key] = <<>>

\* the ways plot_all_metrics ends on the lists it parses from the file:
\* savefig may fail, and ax.plot(years, values), which is matplotlib's,
\* may raise on lists of different lengths
PlotOutcomes(r) ==
    IF \E key \in {"lost_objects", "lost_percent", "failed_reads", "failed_percent"} :
           Len(r.data[key]) # Len(r.years)
    THEN {"ValueError", "none", "OSError"}
    ELSE {"none", "OSError"}

\* the rest of the pass once parse_simulation_file returned: the four
\* range lines take min and max of the lists, then plot_all_metrics parses
\* the file again, scales the times and saves the plot; any exception
\* leaves main
Ranges ==
    /\ caller # None /\ caller.kind = "folder" /\ pc \in {"done", "raised"}
    /\ \E plot \in (IF pc = "done" THEN PlotOutcomes(loc.ret[1]) ELSE {"none"}) :
           /\ caller' = [caller EXCEPT
                  !.exc = IF pc = "raised" THEN loc.exc
                          ELSE IF EmptyRange(loc.ret[1].data) THEN "ValueError"
                          ELSE plot,
                  !.plotted = IF pc = "done" /\ ~EmptyRange(loc.ret[1].data)
                                 /\ plot = "none"
                              THEN Append(@, caller.i) ELSE @]
           /\ pc' = IF caller'.exc = "none" THEN "next" ELSE "aborted"
    /\ UNCHANGED <<prog, lines, idx, loc>>

NextFolder == Process \/ Begin \/ Line \/ Return \/ Ranges \/ Finish

SpecFolder == StartFolder /\ [][NextFolder]_vars

\* C25: in main.main a file that yields no valid records does not prevent
\* the remaining files of the input folder from being processed: main is
\* never left by an exception in the pass of a file of which no line made
\* an entry in any list, while files remain
C25_EmptyFileDoesNotStopFolder ==
    (/\ caller # None /\ caller.kind = "folder"
     /\ pc = "aborted"
     /\ caller.i < Len(caller.files))
    => \E list \in DOMAIN loc.data : loc.data[list] # <<>>

(***************************************************************************)
(* A divisor of 0 in the time rescaling.                                   *)
(***************************************************************************)
SpecDivisor ==
    (Run({"track_tube_status", "visualize_comprehensive_metrics"})
         \/ RunBatch({"batch_visualize_snapshots"}))
        /\ [][NextBatch]_vars

\* C26: time rescaling never divides by zero: with a maximum time of 0 in
\* the header (track_tube_status, visualize_comprehensive_metrics), a
\* largest raw time of 0 in the file (batch_visualize_snapshots) or an
\* access rate of 0 (visualize_comprehensive_metrics) the parse call does
\* not end with a ZeroDivisionError
C26_NoDivisionByZero ==
    (/\ prog \in {"track_tube_status", "batch_visualize_snapshots",
                  "visualize_comprehensive_metrics"}
     /\ pc = "raised")
        => loc.exc # "ZeroDivisionError"

(***************************************************************************)
(* parse_log_file of track_tube_status, track_tube_status_with_triplets    *)
(* and compare_single_vs_group.  A log line is searched with the three     *)
(* regular expressions SynthesisRe, LastReadRe and TubeRe.                 *)
(***************************************************************************)
\* what differs between the three scripts: the initial tube count when the
\* argument is missing or 0 (track_tube_status takes no argument), and
\* whether created_by_year is kept and returned
log_config(p) ==
    CASE p = "track_tube_status" -> [initial_tubes |-> 2304, created |-> TRUE]
      [] p = "track_tube_status_with_triplets" -> [initial_tubes |-> 3042, created |-> TRUE]
      [] p = "compare_single_vs_group" -> [initial_tubes |-> 2304, created |-> FALSE]

\* d[key] = value on a dict d
SetItem(d, key, value) == (key :> value) @@ d

\* the branch of a matched synthesis line: one more synthesis, and where
\* created_by_year is kept the total so far under the year of the line
log_synthesis(l, created, year) ==
    [l EXCEPT !.acc.synthesis_count = @ + 1,
              !.acc.created_by_year =
                  IF created
                  THEN SetItem(@, year, l.acc.initial_tubes + l.acc.synthesis_count + 1)
                  ELSE @]

\* the branch of a matched last-read line with the tube not added to
\* all_tubes_seen
log_last_read_Unseen(l, year, tube_number) ==
    IF tube_number \notin l.acc.terminated_tubes
    THEN [l EXCEPT !.acc.terminated_tubes = @ \cup {tube_number},
                   !.acc.terminated_by_year =
                       SetItem(@, year, Cardinality(l.acc.terminated_tubes) + 1)]
    ELSE l

\* the branch of a matched last-read line with terminated_by_year[year]
\* set for every line, not only for the first of a tube
log_last_read_EveryLine(l, year, tube_number) ==
    [l EXCEPT !.acc.all_tubes_seen = @ \cup {tube_number},
              !.acc.terminated_tubes = @ \cup {tube_number},
              !.acc.terminated_by_year =
                  SetItem(@, year, Cardinality(l.acc.terminated_tubes \cup {tube_number}))]

\* the branch of a matched last-read line: the tube is seen, and on its
\* first last read it is terminated and the number of terminated tubes is
\* stored under the year of the line
log_last_read(l, year, tube_number) ==
    IF tube_number \notin l.acc.terminated_tubes
    THEN [l EXCEPT !.acc.all_tubes_seen = @ \cup {tube_number},
                   !.acc.terminated_tubes = @ \cup {tube_number},
                   !.acc.terminated_by_year =
                       SetItem(@, year, Cardinality(l.acc.terminated_tubes) + 1)]
    ELSE [l EXCEPT !.acc.all_tubes_seen = @ \cup {tube_number}]

\* the loop body on a line: the first of the three tests that finds its
\* words in the line decides the branch, and the branch acts only when
\* its pattern matches (objects_per_tube, read from a fourth kind of
\* line, is never used)
log_line(p, l, rawline) ==
    LET line == Strip(rawline)
    IN  IF Contains(line, <<"synthesis from cache">>)
        THEN LET match == ReSearch(SynthesisRe, line)
             IN  IF match = None THEN l
                 ELSE log_synthesis(l, log_config(p).created, match[1][2])
        ELSE IF Contains(line, <<"last read">>)
        THEN LET match == ReSearch(LastReadRe, line)
             IN  IF match = None THEN l
                 ELSE log_last_read(l, match[1][2], match[1][3])
        ELSE IF /\ Contains(line, <<"read, object number:">>)
                /\ Contains(line, <<"tube number:">>)
        THEN LET match == ReSearch(TubeRe, line)
             IN  IF match = None THEN l
                 ELSE [l EXCEPT !.acc.all_tubes_seen = @ \cup {match[1][1]}]
        ELSE l

\* sorted(d.keys()) and [d[y] for y in sorted(d.keys())]
SortedKeys(d) == [k \in 1..Cardinality(DOMAIN d) |-> Kth(DOMAIN d, k)]

ValuesByKey(d) == [k \in 1..Cardinality(DOMAIN d) |-> d[Kth(DOMAIN d, k)]]

\* the code after the loop: year 0 of created_by_year is set to the
\* initial tube count, the two dicts become lists sorted by year
log_return(p, l) ==
    LET created_by_year == SetItem(l.acc.created_by_year, 0, l.acc.initial_tubes)
        common == [years_terminated |-> SortedKeys(l.acc.terminated_by_year),
                   counts_terminated |-> ValuesByKey(l.acc.terminated_by_year),
                   initial_tubes |-> l.acc.initial_tubes,
                   actual_total_tubes |-> Cardinality(l.acc.all_tubes_seen),
                   final_terminated |-> Cardinality(l.acc.terminated_tubes),
                   synthesis_count |-> l.acc.synthesis_count]
    IN  [l EXCEPT !.ret =
            Some(IF log_config(p).created
                 THEN common @@ [years_created |-> SortedKeys(created_by_year),
                                 counts_created |-> ValuesByKey(created_by_year)]
                 ELSE common)]

\* "time: 10, year: <year>, " of a log line
Stamp(year) ==
    <<"time:", " ">> \o Num(10) \o <<",", " ", "year:", " ">> \o Num(year) \o <<",", " ">>

\* the end of a read line for a tube: "object number: 3, tube number: <tube>",
\* with a form feed for the last space when the tube is 8
OfTube(tube) ==
    <<" ">> \o Num(3) \o <<",", " ", "tube number:", IF tube = 8 THEN "\f" ELSE " ">>
        \o Num(tube) \o <<"\n">>

\* the lines of logs of terminations: the last read of tube 7 in the
\* years 1 and 2 and of tube 8 in the years 1 and 2, a read of tube 9, a
\* last read that names no tube, a synthesis in year 1
TerminationLines ==
    {Stamp(y) \o <<"last read", ",", " ", "object number:">> \o OfTube(t) :
        y \in {1, 2}, t \in {7, 8}}
    \cup {Stamp(1) \o <<"read, object number:">> \o OfTube(9),
          Stamp(1) \o <<"last read", "\n">>,
          Stamp(1) \o <<"synthesis from cache", "\n">>}

\* the lines of logs of creations: a synthesis in the years 0, 1 and 2,
\* one with no time and year, the last read of tube 7, a read of tube 9
CreationLines ==
    {Stamp(y) \o <<"synthesis from cache", "\n">> : y \in {0, 1, 2}}
    \cup {<<"synthesis from cache", "\n">>,
          Stamp(1) \o <<"last read", ",", " ", "object number:">> \o OfTube(7),
          Stamp(1) \o <<"read, object number:">> \o OfTube(9)}

\* initial_tubes_from_snaps: track_tube_status has no such argument, the
\* other two are called with the count of the snaps file or with None
LogArgs(p) ==
    IF p = "track_tube_status_with_triplets" THEN {None, Some(1000)} ELSE {None}

\* parse_log_file of script p is about to read the first line of a log
StartLog(p, kinds) ==
    \E file \in SeqsUpTo(kinds, MaxLines), given \in LogArgs(p) :
        /\ prog = p
        /\ lines = file
        /\ idx = 1
        /\ loc = [args |-> [initial_tubes_from_snaps |-> given],
                  acc |-> [terminated_tubes |-> {}, all_tubes_seen |-> {},
                           synthesis_count |-> 0,
                           terminated_by_year |-> <<>>, created_by_year |-> <<>>,
                           initial_tubes |->
                               IF given # None /\ given[1] # 0 THEN given[1]
                               ELSE log_config(p).initial_tubes],
                  exc |-> "none", ret |-> None, percentage_terminated |-> None]
        /\ pc = "log"
        /\ caller = None

\* parse_log_file of one of the scripts P is about to read a log made of
\* lines of the given kinds
RunLog(P, kinds) == \E p \in P : StartLog(p, kinds)

\* for line in f: the loop body on the line at idx
LogLine ==
    /\ pc = "log" /\ idx <= Len(lines)
    /\ loc' = log_line(prog, loc, lines[idx])
    /\ idx' = idx + 1
    /\ UNCHANGED <<prog, lines, pc, caller>>

\* the file is read: the lists are made and returned
LogReturn ==
    /\ pc = "log" /\ idx > Len(lines)
    /\ loc' = log_return(prog, loc)
    /\ pc' = "parsed"
    /\ UNCHANGED <<prog, lines, idx, caller>>

\* main of track_tube_status after parse_log_file: the snaps file is
\* parsed and plot_unified_results computes
\* (final_terminated / actual_total_tubes) * 100 for its text box
Statistics ==
    /\ pc = "parsed" /\ prog = "track_tube_status"
    /\ IF loc.ret[1].actual_total_tubes = 0
       THEN /\ loc' = [loc EXCEPT !.exc = "ZeroDivisionError"]
            /\ pc' = "raised"
       ELSE /\ loc' = [loc EXCEPT !.percentage_terminated =
                          Some(Percent(loc.ret[1].final_terminated,
                                       loc.ret[1].actual_total_tubes))]
            /\ pc' = "plotted"
    /\ UNCHANGED <<prog, lines, idx, caller>>

NextLog == LogLine \/ LogReturn \/ Statistics

SpecLog ==
    RunLog({"track_tube_status", "compare_single_vs_group"}, TerminationLines)
        /\ [][NextLog]_vars

\* TRUE iff the loop body takes the line for the last read of a tube
IsLastRead(rawline) ==
    /\ ~Contains(Strip(rawline), <<"synthesis from cache">>)
    /\ Contains(Strip(rawline), <<"last read">>)
    /\ ReSearch(LastReadRe, Strip(rawline)) # None

\* the year and the tube of the last-read lines among the lines read so
\* far, in log order
LastReads ==
    LET at == {j \in 1..(idx - 1) : IsLastRead(lines[j])}
    IN  [k \in 1..Cardinality(at) |->
            [year |-> ReSearch(LastReadRe, Strip(lines[Kth(at, k)]))[1][2],
             tube |-> ReSearch(LastReadRe, Strip(lines[Kth(at, k)]))[1][3]]]

\* C27: while parse_log_file reads any sequence of log lines the
\* terminated tubes are a subset of the tubes seen, a tube is terminated
\* once however many last-read lines name it (the terminated tubes are
\* the distinct tubes of the last-read lines read), and the terminated
\* count returned never exceeds the returned total of tubes seen
C27_TerminatedWithinSeen ==
    prog \in {"track_tube_status", "compare_single_vs_group"} =>
        LET reads == LastReads
        IN  /\ loc.acc.terminated_tubes \subseteq loc.acc.all_tubes_seen
            /\ loc.acc.terminated_tubes = {reads[k].tube : k \in 1..Len(reads)}
            /\ pc # "log" =>
                   /\ loc.ret[1].final_terminated = Cardinality(loc.acc.terminated_tubes)
                   /\ loc.ret[1].final_terminated <= loc.ret[1].actual_total_tubes

\* parse_log_file returned after the last read of tube 7 in year 1, a read
\* of tube 9, and a second last read of tube 7 in year 2: one tube
\* terminated of two seen
C27_Witness ==
    /\ prog = "compare_single_vs_group" /\ pc = "parsed"
    /\ Len(lines) = 3
    /\ LastReads = <<[year |-> 1, tube |-> 7], [year |-> 2, tube |-> 7]>>
    /\ loc.acc.all_tubes_seen = {7, 9}
    /\ loc.ret[1].final_terminated = 1
    /\ loc.ret[1].actual_total_tubes = 2
    /\ loc.ret[1].counts_terminated = <<1>>

(***************************************************************************)
(* The terminated counts by year.                                          *)
(***************************************************************************)
SpecTerminated == RunLog({"track_tube_status"}, TerminationLines) /\ [][NextLog]_vars

\* C28: if the years of the last-read lines never decrease in log order,
\* the counts_terminated parse_log_file returns is strictly increasing
\* along years_terminated, which has one year per count, and its last
\* element is the number of distinct terminated tubes
C28_TerminatedCountsIncrease ==
    (prog = "track_tube_status" /\ pc # "log") =>
        LET reads == LastReads
            counts == loc.ret[1].counts_terminated
        IN  (\A k \in 2..Len(reads) : reads[k - 1].year <= reads[k].year) =>
                /\ Len(loc.ret[1].years_terminated) = Len(counts)
                /\ \A k \in 2..Len(counts) :
                       /\ loc.ret[1].years_terminated[k - 1] < loc.ret[1].years_terminated[k]
                       /\ counts[k - 1] < counts[k]
                /\ counts # <<>> =>
                       counts[Len(counts)] =
                           Cardinality({reads[k].tube : k \in 1..Len(reads)})

\* parse_log_file returned after the last read of tube 7 in year 1, its
\* second last read in year 2 and the last read of tube 8 in year 2: the
\* counts 1, 2 for the years 1, 2
C28_Witness ==
    /\ prog = "track_tube_status" /\ pc = "parsed"
    /\ LastReads = <<[year |-> 1, tube |-> 7], [year |-> 2, tube |-> 7],
                     [year |-> 2, tube |-> 8]>>
    /\ loc.ret[1].years_terminated = <<1, 2>>
    /\ loc.ret[1].counts_terminated = <<1, 2>>
    /\ loc.ret[1].final_terminated = 2

(***************************************************************************)
(* The created counts by year, and the percentage of terminated tubes.     *)
(***************************************************************************)
SpecCreated ==
    RunLog({"track_tube_status", "track_tube_status_with_triplets"}, CreationLines)
        /\ [][NextLog]_vars

\* the years of the synthesis lines the loop body acted on, among the
\* lines read so far, in log order
SynthesisYears ==
    LET at == {j \in 1..(idx - 1) :
                  /\ Contains(Strip(lines[j]), <<"synthesis from cache">>)
                  /\ ReSearch(SynthesisRe, Strip(lines[j])) # None}
    IN  [k \in 1..Cardinality(at) |-> ReSearch(SynthesisRe, Strip(lines[Kth(at, k)]))[1][2]]

\* C29: if at least one synthesis event is parsed and the years of the
\* events never decrease in log order, the counts_created parse_log_file
\* returns never decreases along years_created and its last element is
\* initial_tubes + synthesis_count
C29_CreatedCountsReachTotal ==
    (/\ prog \in {"track_tube_status", "track_tube_status_with_triplets"}
     /\ pc # "log") =>
        LET years == SynthesisYears
            counts == loc.ret[1].counts_created
        IN  (/\ Len(years) >= 1
             /\ \A k \in 2..Len(years) : years[k - 1] <= years[k]) =>
                /\ \A k \in 2..Len(counts) : counts[k - 1] <= counts[k]
                /\ counts[Len(counts)] =
                       loc.ret[1].initial_tubes + loc.ret[1].synthesis_count

\* C30: the percentage of terminated tubes,
\* (final_terminated / actual_total_tubes) * 100, is only ever computed
\* with a denominator other than 0, for any log file, also for one with
\* synthesis events and no read or last-read line: main of
\* track_tube_status does not end with a division by zero
C30_PercentageHasDenominator ==
    (prog = "track_tube_status" /\ pc \in {"plotted", "raised"}) =>
        /\ loc.ret[1].actual_total_tubes # 0
        /\ loc.exc # "ZeroDivisionError"
====
